---- MODULE Spec2Model ----
(***************************************************************************)
(* Execution engine of waverunner: run_sprint (the scheduler loop and its  *)
(* worker futures, agent.py 2049-2409), the Reaper-kill handler of         *)
(* execute_and_complete, and the iteration loop run_sprint_loop            *)
(* (agent.py 2683-2788).                                                   *)
(*                                                                         *)
(* The board is the one freshly planned by `waverunner go`: every task is  *)
(* created with the dataclass defaults (status BACKLOG, reaper_kill_count  *)
(* 0, empty resurrection_history).                                         *)
(***************************************************************************)
EXTENDS Integers, Sequences, FiniteSets, TLC

(***************************************************************************)
(* Bounds of the model                                                     *)
(***************************************************************************)
\* total number of Reaper kills the environment performs in one behaviour
KillBudget == 10
\* the max_iterations cap handed to run_sprint_loop
MaxIterations == 2
\* largest max_parallel tried
MaxParallelBound == 2

(***************************************************************************)
(* Program constants                                                       *)
(***************************************************************************)
\* agent.py:2198  if kill_count >= 10
MaxKills == 10
\* agent.py:2240  not is_silence_timeout and kill_count >= 2
NonSilenceThreshold == 2
\* agent.py:2241  is_silence_timeout and kill_count >= 3
SilenceThreshold == 3

(***************************************************************************)
(* The plan: board.tasks in insertion order, and the dependency lists the  *)
(* planner may have produced.                                              *)
(***************************************************************************)
TaskOrder == <<"a", "b">>
TaskIds == {TaskOrder[i] : i \in 1..Len(TaskOrder)}

DepGraphs ==
    { [a |-> {}, b |-> {}],          \* two independent tasks
      [a |-> {}, b |-> {"a"}],       \* chain  a <- b
      [a |-> {"b"}, b |-> {"a"}],    \* cycle  a <-> b
      [a |-> {}, b |-> {"ghost"}] }  \* b depends on an id that is no task

\* No task lies on or behind a cycle and no dependency is dangling:
\* every task is placed by repeatedly taking tasks whose deps are placed.
RECURSIVE Placeable(_, _)
Placeable(g, placed) ==
    LET next == {t \in TaskIds \ placed : g[t] \subseteq placed}
    IN  IF next = {} THEN placed ELSE Placeable(g, placed \cup next)

IsDAG(g) == Placeable(g, {}) = TaskIds

Modes == {"sprint", "kanban"}

Statuses == {"backlog", "planned", "ready", "in_progress", "in_review",
             "blocked", "completed", "skipped"}

Complexities == {"trivial", "small", "medium", "large", "unknown"}

\* models.py 35-39, and the rank next_task sorts by (models.py 476)
Priorities == {"critical", "high", "medium", "low"}

PriorityRank(p) ==
    CASE p = "critical" -> 0
      [] p = "high"     -> 1
      [] p = "medium"   -> 2
      [] p = "low"      -> 3
      [] OTHER          -> 2

\* the priorities the planner may have given the tasks (agent.py 1060); no
\* step of run_sprint reads them
PriorityAssignments == [TaskIds -> Priorities]

\* values kanban_config.wip_limit may hold: the default 2 (models.py 299) or
\* what the board file says (models.py 309); no step of run_sprint reads it
WipLimits == {1, 2}

(***************************************************************************)
(* Reaper kill reasons: messages reaper_monitor_task returns (agent.py     *)
(* 191, 225, 229), each given by the lower-cased words it contains.        *)
(***************************************************************************)
KillReasons == {"loop", "no_heartbeat", "stale_heartbeat"}

ReasonWords(r) ==
    CASE r = "loop"            -> {"infinite", "loop", "detected", "repeating", "excessively"}
      [] r = "no_heartbeat"    -> {"no", "heartbeat", "found", "minutes", "silence", "agent", "appears", "hung"}
      [] r = "stale_heartbeat" -> {"last", "heartbeat", "was", "ago", "appears", "hung"}
      [] OTHER                 -> {}

\* str(e).lower(): "task killed by reaper: " followed by the reason
ErrorMsgWords(r) == {"task", "killed", "by", "reaper"} \cup ReasonWords(r)

SilenceWords == {"silence", "hung", "no output", "unresponsive"}

is_silence_timeout(r) == \E w \in SilenceWords : w \in ErrorMsgWords(r)

\* should_reestimate with the two thresholds exchanged
should_reestimate_swapped(r, kill_count) ==
    \/ (~is_silence_timeout(r) /\ kill_count >= SilenceThreshold)
    \/ (is_silence_timeout(r) /\ kill_count >= NonSilenceThreshold)

should_reestimate(r, kill_count) ==
    \/ (~is_silence_timeout(r) /\ kill_count >= NonSilenceThreshold)
    \/ (is_silence_timeout(r) /\ kill_count >= SilenceThreshold)

(***************************************************************************)
(* Subprocess exit codes and what ClaudeCodeProvider.run makes of them.    *)
(***************************************************************************)
ExitCodes == {0, 1, -9, -15}

\* providers.py 232-270: -9 and other negative codes raise RuntimeError,
\* every other code (0, and positive codes such as 1) returns the output.
ProviderRun(rc) ==
    IF rc # 0
    THEN IF rc = -9 THEN "RuntimeError"
         ELSE IF rc = 1 THEN "output"
         ELSE IF rc < 0 THEN "RuntimeError"
         ELSE "output"
    ELSE "output"

(***************************************************************************)
(* Re-estimation verdicts: what the deliberation's YAML parses to.         *)
(***************************************************************************)
Verdicts ==
    { [parsed |-> FALSE, consensus |-> FALSE, new_complexity |-> ""],
      [parsed |-> TRUE,  consensus |-> FALSE, new_complexity |-> "medium"],
      [parsed |-> TRUE,  consensus |-> TRUE,  new_complexity |-> "medium"],
      [parsed |-> TRUE,  consensus |-> TRUE,  new_complexity |-> "unknown"] }

NoComplexity == "None"

\* no deliberation has produced a verdict
NoVerdict == [parsed |-> FALSE, consensus |-> FALSE, new_complexity |-> "none"]

\* run_reestimation_discussion that returns the proposed size without consensus
run_reestimation_discussion_no_consensus(v) ==
    IF ~v.parsed THEN NoComplexity
    ELSE IF v.new_complexity \in {"trivial", "small", "medium", "large"}
         THEN v.new_complexity
         ELSE NoComplexity

\* agent.py 2004-2032
run_reestimation_discussion(v) ==
    IF ~v.parsed THEN NoComplexity
    ELSE IF ~v.consensus THEN NoComplexity
    ELSE IF v.new_complexity \in {"trivial", "small", "medium", "large"}
         THEN v.new_complexity
         ELSE NoComplexity

(***************************************************************************)
(* calculate_waves (agent.py 61-89), studied as a function of its          *)
(* arguments: the task list, each task's dependencies, already_completed.  *)
(***************************************************************************)
\* largest number of dependencies of one task
MaxDeps == 2

\* the tasks a call may be given, in list order, and the ids a dependency or
\* already_completed may name ("x" is the id of none of them)
WaveTaskOrder == <<"a", "b", "c">>

WaveTaskIds == {"a", "b", "c"}

WaveDepIds == WaveTaskIds \cup {"x"}

Elems(q) == {q[i] : i \in 1..Len(q)}

\* the sub-lists of WaveTaskOrder
TaskLists == {SelectSeq(WaveTaskOrder, LAMBDA t : t \in S) : S \in SUBSET WaveTaskIds}

\* calculate_waves whose wave-building loop already counts the tasks it has
\* just put in the wave as completed
RECURSIVE eager_wave(_, _, _, _)
eager_wave(remaining, d, completed_ids, wave) ==
    IF remaining = <<>> THEN wave
    ELSE LET task == Head(remaining)
         IN  IF d[task] \subseteq completed_ids
             THEN eager_wave(Tail(remaining), d, completed_ids \cup {task},
                             Append(wave, task))
             ELSE eager_wave(Tail(remaining), d, completed_ids, wave)

RECURSIVE calculate_waves_eager_loop(_, _, _, _)
calculate_waves_eager_loop(remaining, d, completed_ids, waves) ==
    IF remaining = <<>> THEN waves
    ELSE LET wave == eager_wave(remaining, d, completed_ids, <<>>)
         IN  IF wave = <<>> THEN waves
             ELSE calculate_waves_eager_loop(
                      SelectSeq(remaining, LAMBDA t : t \notin Elems(wave)), d,
                      completed_ids \cup Elems(wave), Append(waves, wave))

calculate_waves_eager(tasks, d, already_completed) ==
    calculate_waves_eager_loop(tasks, d, already_completed, <<>>)

\* calculate_waves that forgets to add a wave's ids to completed_ids
calculate_waves_first_only(tasks, d, already_completed) ==
    LET wave == SelectSeq(tasks, LAMBDA t : d[t] \subseteq already_completed)
    IN  IF wave = <<>> THEN <<>> ELSE <<wave>>

\* the while loop, agent.py 74-87
RECURSIVE calculate_waves_loop(_, _, _, _)
calculate_waves_loop(remaining, d, completed_ids, waves) ==
    IF remaining = <<>> THEN waves
    ELSE LET wave == SelectSeq(remaining, LAMBDA t : d[t] \subseteq completed_ids)
         IN  IF wave = <<>> THEN waves
             ELSE calculate_waves_loop(
                      SelectSeq(remaining, LAMBDA t : t \notin Elems(wave)), d,
                      completed_ids \cup Elems(wave), Append(waves, wave))

\* agent.py 61-89
calculate_waves(tasks, d, already_completed) ==
    calculate_waves_loop(tasks, d, already_completed, <<>>)

(***************************************************************************)
(* State                                                                   *)
(***************************************************************************)
VARIABLES
    mode,            \* board.mode
    deps,            \* task.dependencies, per task
    max_parallel,    \* argument of run_sprint
    scope_locked,    \* board.sprint_config.scope_locked
    status,          \* task.status
    started_at,      \* task.started_at is set (TRUE) or None (FALSE)
    complexity,      \* task.complexity
    blocked_reason,  \* task.blocked_reason: 0 for "", n for "Reaper killed {n}x - needs replan"
    reaper_kill_count,
    resurrection_history, \* sequence of attempt_number of the records
    board_lock,      \* 0 when free, else the slot of the worker holding it
    pending_futures, \* slot -> future record or NoFuture
    pc,              \* position of the scheduler thread
    tasks_to_start,  \* run_sprint's local list
    iteration,       \* run_sprint_loop's counter
    kills_left,      \* kills the environment may still perform
    ten_killed,      \* tasks whose kill count reached MaxKills in the current run_sprint
    task_wave_map,   \* run_sprint's local: task id -> wave number (0: not in the map)
    current_wave,    \* run_sprint's local
    integration_notes, \* number of "--- Wave n ---" sections in board.integration_notes
    unsaved,         \* the tasks in memory differ from the board file
    calc,            \* one call of calculate_waves: its arguments and its result
    attempt,         \* one call of ClaudeCodeProvider.run: its locals and its outcome
    nego,            \* one call of negotiate_resurrection: its locals and its outcome
    sloop,           \* one call of run_sprint_loop, the sprint taken as one step
    plan,            \* a Board on its own: calls of Board.add_task and Board.lock_scope
    reaper,         \* one call of reaper_monitor_task: its inputs and its verdict
    wsched          \* run_sprint's wave bookkeeping on a three-task plan, and the guard calls made

\* the state of run_sprint_loop and the board
mainVars == <<mode, deps, max_parallel, scope_locked, status, started_at,
              complexity, blocked_reason, reaper_kill_count,
              resurrection_history, board_lock, pending_futures, pc,
              tasks_to_start, iteration, kills_left, ten_killed,
              task_wave_map, current_wave, integration_notes, unsaved>>

\* the locals and the notes of the wave integration guard
waveVars == <<task_wave_map, current_wave, integration_notes>>

\* the state of the calls studied on their own
aux == <<calc, attempt, nego, sloop, plan, reaper, wsched>>

vars == <<mainVars, aux>>

boardVars == <<status, started_at, complexity, blocked_reason,
               reaper_kill_count, resurrection_history>>

\* a future: its task, the position of its worker, the subprocess exit code
\* (rc) or Reaper reason (err) the worker is handling, its local kill_count,
\* and the verdict its re-estimation deliberation came back with
NoFuture == [task |-> "none", pc |-> "none", rc |-> 0, err |-> "none", kc |-> 0,
             verdict |-> NoVerdict]

NewFuture(t) == [task |-> t, pc |-> "exec", rc |-> 0, err |-> "none", kc |-> 0,
                 verdict |-> NoVerdict]

DoneFuture(t) == [task |-> t, pc |-> "done", rc |-> 0, err |-> "none", kc |-> 0,
                  verdict |-> NoVerdict]

Slots == 1..MaxParallelBound

\* no call of calculate_waves, of the provider, of the negotiation, of the
\* iteration loop or of the board's own methods is under study
NoCalc == [pc |-> "none"]

NoAttempt == [pc |-> "none"]

NoNego == [pc |-> "none"]

NoLoop == [pc |-> "none"]

NoPlan == [pc |-> "none"]

NoReaper == [pc |-> "none"]

NoGuard == [pc |-> "none"]

Init ==
    /\ mode \in Modes
    /\ deps \in DepGraphs
    /\ max_parallel \in 1..MaxParallelBound
    /\ scope_locked = FALSE
    /\ status = [t \in TaskIds |-> "backlog"]
    /\ started_at = [t \in TaskIds |-> FALSE]
    /\ complexity = [t \in TaskIds |-> "small"]
    /\ blocked_reason = [t \in TaskIds |-> 0]
    /\ reaper_kill_count = [t \in TaskIds |-> 0]
    /\ resurrection_history = [t \in TaskIds |-> <<>>]
    /\ board_lock = 0
    /\ pending_futures = [s \in Slots |-> NoFuture]
    /\ pc = "begin"
    /\ tasks_to_start = <<>>
    /\ iteration = 1
    /\ kills_left = KillBudget
    /\ ten_killed = {}
    /\ task_wave_map = [t \in TaskIds |-> 0]
    /\ current_wave = 0
    /\ integration_notes = 0
    /\ unsaved = FALSE
    /\ calc = NoCalc
    /\ attempt = NoAttempt
    /\ nego = NoNego
    /\ sloop = NoLoop
    /\ plan = NoPlan
    /\ reaper = NoReaper
    /\ wsched = NoGuard

(***************************************************************************)
(* Board operations (models.py)                                            *)
(***************************************************************************)
\* Board.lock_scope, models.py 492-502: backlog items become planned
lock_scope(st) ==
    [t \in TaskIds |-> IF st[t] = "backlog" THEN "planned" ELSE st[t]]

\* deps_met with the dependency test dropped
deps_met_ignored(t, st) == TRUE

\* all(dep in completed_ids for dep in task.dependencies), agent.py 2044
deps_met(t, st) ==
    \A d \in deps[t] : d \in {c \in TaskIds : st[c] = "completed"}

\* EligibleStatuses without BACKLOG, the status of a task reset after a kill
EligibleStatusesNoBacklog == {"planned", "ready"}

\* the statuses get_ready_tasks accepts, agent.py 2042
EligibleStatuses == {"planned", "ready", "backlog"}

\* get_ready_tasks, agent.py 2035-2046: in board order
get_ready_tasks(st) ==
    SelectSeq(TaskOrder,
              LAMBDA t : /\ st[t] \in EligibleStatuses
                         /\ st[t] # "in_progress"
                         /\ deps_met(t, st))

\* running_ids that holds only the tasks whose subprocess is running
running_ids_executing_only(pf) ==
    {pf[s].task : s \in {x \in Slots : pf[x] # NoFuture /\ pf[x].pc = "exec"}}

\* running_ids = set(pending_futures.values()), agent.py 2306
running_ids(pf) == {pf[s].task : s \in {x \in Slots : pf[x] # NoFuture}}

\* filter_running with the filter dropped
filter_running_none(ready, running) == ready

\* ready_tasks = [t for t in ready_tasks if t.id not in running_ids], agent.py 2307
filter_running(ready, running) ==
    SelectSeq(ready, LAMBDA t : t \notin running)

NumPending(pf) == Cardinality({s \in Slots : pf[s] # NoFuture})

\* ready_tasks[:slots], agent.py 2310-2311
Take(seq, n) ==
    IF n <= 0 THEN <<>>
    ELSE IF n >= Len(seq) THEN seq ELSE SubSeq(seq, 1, n)

FreeSlot(pf) == CHOOSE s \in Slots : pf[s] = NoFuture /\ \A x \in Slots : pf[x] = NoFuture => s <= x

\* ExitCheck that gives up as soon as some task is blocked
ExitCheck_blocked_only(st) ==
    LET remaining   == {t \in TaskIds : st[t] \notin {"completed", "skipped"}}
        blocked     == {t \in TaskIds : st[t] = "blocked"}
        backlog     == {t \in TaskIds : st[t] = "backlog"}
        in_progress == {t \in TaskIds : st[t] = "in_progress"}
    IN  IF remaining = {} THEN "break"
        ELSE IF get_ready_tasks(st) # <<>> THEN "loop"
        ELSE IF blocked # {} THEN "break"
        ELSE IF backlog # {} \/ in_progress # {} THEN "continue"
        ELSE "break"

\* the exit check of run_sprint, agent.py 2351-2388, taken with no future pending
ExitCheck(st) ==
    LET remaining   == {t \in TaskIds : st[t] \notin {"completed", "skipped"}}
        blocked     == {t \in TaskIds : st[t] = "blocked"}
        backlog     == {t \in TaskIds : st[t] = "backlog"}
        in_progress == {t \in TaskIds : st[t] = "in_progress"}
    IN  IF remaining = {} THEN "break"
        ELSE IF get_ready_tasks(st) # <<>> THEN "loop"
        ELSE IF blocked # {} /\ in_progress = {} /\ backlog = {} THEN "break"
        ELSE IF backlog # {} \/ in_progress # {} THEN "continue"
        ELSE "break"

\* Board.save that leaves the file as it was
board_save_lost(dirty) == dirty

\* Board.save, models.py 583-588: the file holds every task's fields (Task.to_dict,
\* models.py 223-245) as they are in memory; `dirty` says whether it did before
board_save(dirty) == FALSE

\* agent.py 2072-2080: the wave number of every pending task the waves place
wave_map(st, d) ==
    LET pending == SelectSeq(TaskOrder, LAMBDA t : st[t] \notin {"completed", "skipped"})
        already_completed == {t \in TaskIds : st[t] = "completed"}
        waves == calculate_waves(pending, d, already_completed)
    IN  [t \in TaskIds |->
            IF \E i \in 1..Len(waves) : t \in Elems(waves[i])
            THEN CHOOSE i \in 1..Len(waves) : t \in Elems(waves[i])
            ELSE 0]

\* agent.py 2316: task_wave_map.get(tasks_to_start[0].id, current_wave + 1)
next_wave(wmap, cw, to_start) ==
    IF wmap[Head(to_start)] # 0 THEN wmap[Head(to_start)] ELSE cw + 1

(***************************************************************************)
(* The scheduler thread: run_sprint                                        *)
(***************************************************************************)
\* agent.py 2066-2082: entry of run_sprint: lock the scope and save, make
\* the mutex, compute the wave of every pending task
SchedBegin ==
    /\ pc = "begin"
    /\ IF mode = "sprint" /\ ~scope_locked
       THEN /\ scope_locked' = TRUE
            /\ status' = lock_scope(status)
            /\ unsaved' = board_save(TRUE)
       ELSE UNCHANGED <<scope_locked, status, unsaved>>
    /\ task_wave_map' = wave_map(status', deps)
    /\ current_wave' = 0
    /\ pc' = "top"
    /\ UNCHANGED <<aux, integration_notes, mode, deps, max_parallel, started_at, complexity,
                   blocked_reason, reaper_kill_count,
                   resurrection_history, board_lock, pending_futures,
                   tasks_to_start, iteration, kills_left, ten_killed>>

\* agent.py 2302-2318, 2336: collect the ready tasks under the lock, pick the
\* ones to start; a first wave is entered at once, a later one after the guard
SchedCollect ==
    /\ pc = "top"
    /\ board_lock = 0
    /\ LET ready == filter_running(get_ready_tasks(status), running_ids(pending_futures))
           slots == max_parallel - NumPending(pending_futures)
           to_start == Take(ready, slots)
           new_wave == to_start # <<>>
                       /\ next_wave(task_wave_map, current_wave, to_start) > current_wave
       IN  /\ tasks_to_start' = to_start
           /\ pc' = IF new_wave /\ current_wave > 0 THEN "wave" ELSE "start"
           /\ current_wave' =
                 IF new_wave /\ current_wave = 0
                 THEN next_wave(task_wave_map, current_wave, to_start)
                 ELSE current_wave
    /\ UNCHANGED <<aux, task_wave_map, integration_notes, unsaved, mode, deps, max_parallel, scope_locked, boardVars, board_lock,
                   pending_futures, iteration, kills_left, ten_killed>>

\* agent.py 2319-2336: the wave integration guard before a later wave: with
\* an architecture contract and completed tasks in the wave just left, the
\* guard is asked (outside the lock) and the issues it reports are appended
\* to board.integration_notes under the lock; then the new wave is entered
SchedWave(issues) ==
    /\ pc = "wave"
    /\ IF issues
       THEN /\ \E t \in TaskIds : task_wave_map[t] = current_wave /\ status[t] = "completed"
            /\ board_lock = 0
            /\ integration_notes' = integration_notes + 1
       ELSE UNCHANGED integration_notes
    /\ current_wave' = next_wave(task_wave_map, current_wave, tasks_to_start)
    /\ pc' = "start"
    /\ UNCHANGED <<aux, task_wave_map, unsaved, mode, deps, max_parallel, scope_locked,
                   boardVars, board_lock, pending_futures, tasks_to_start,
                   iteration, kills_left, ten_killed>>

\* agent.py 2343-2349: task.start() and save under the lock, then submit
SchedStart ==
    /\ pc = "start"
    /\ tasks_to_start # <<>>
    /\ board_lock = 0
    /\ LET t == Head(tasks_to_start)
       IN  /\ status' = [status EXCEPT ![t] = "in_progress"]
           /\ started_at' = [started_at EXCEPT ![t] = TRUE]
           /\ pending_futures' =
                 [pending_futures EXCEPT ![FreeSlot(pending_futures)] =
                     NewFuture(t)]
    /\ tasks_to_start' = Tail(tasks_to_start)
    /\ unsaved' = board_save(TRUE)
    /\ UNCHANGED <<aux, waveVars, mode, deps, max_parallel, scope_locked, complexity,
                   blocked_reason, reaper_kill_count, resurrection_history,
                   board_lock, pc, iteration, kills_left, ten_killed>>

\* agent.py 2351-2388: nothing pending: return, or go round the loop again
SchedExitCheck ==
    /\ pc = "start"
    /\ tasks_to_start = <<>>
    /\ NumPending(pending_futures) = 0
    /\ pc' = IF ExitCheck(status) = "break" THEN "returned" ELSE "top"
    /\ UNCHANGED <<aux, waveVars, unsaved, mode, deps, max_parallel, scope_locked, boardVars, board_lock,
                   pending_futures, tasks_to_start, iteration, kills_left,
                   ten_killed>>

\* agent.py 2390-2402: wait (at most 0.5 s) and drop the futures that are done
SchedWait ==
    /\ pc = "start"
    /\ tasks_to_start = <<>>
    /\ NumPending(pending_futures) > 0
    /\ pending_futures' =
          [s \in Slots |-> IF pending_futures[s].pc = "done"
                           THEN NoFuture ELSE pending_futures[s]]
    /\ pc' = "top"
    /\ UNCHANGED <<aux, waveVars, unsaved, mode, deps, max_parallel, scope_locked, boardVars, board_lock,
                   tasks_to_start, iteration, kills_left, ten_killed>>

(***************************************************************************)
(* The worker threads: execute_and_complete, one future per slot           *)
(***************************************************************************)
Fut(s) == pending_futures[s]

SetFut(s, f) == [pending_futures EXCEPT ![s] = f]

\* append_corpse that overwrites the history with the latest record
append_corpse_replace(history, kill_count) == <<kill_count>>

\* resurrection_history.append(corpse), agent.py 2187-2195
append_corpse(history, kill_count) == Append(history, kill_count)

\* providers.py 232-270, reached from execute_task (agent.py 1930-1965): the
\* subprocess ends with exit code rc; the provider returns its output or raises
AttemptExits(s, rc) ==
    /\ Fut(s).pc = "exec"
    /\ pending_futures' =
          SetFut(s, [Fut(s) EXCEPT !.rc = rc,
                                   !.pc = IF ProviderRun(rc) = "output"
                                          THEN "returned" ELSE "raised"])
    /\ UNCHANGED <<aux, waveVars, unsaved, mode, deps, max_parallel, scope_locked, boardVars, board_lock,
                   pc, tasks_to_start, iteration, kills_left, ten_killed>>

\* Complete that does not wait for the lock
Complete_unlocked(s) ==
    /\ Fut(s).pc = "returned"
    /\ status' = [status EXCEPT ![Fut(s).task] = "completed"]
    /\ pending_futures' = SetFut(s, DoneFuture(Fut(s).task))
    /\ unsaved' = board_save(TRUE)
    /\ UNCHANGED <<aux, waveVars, mode, deps, max_parallel, scope_locked, started_at, complexity,
                   blocked_reason, reaper_kill_count, resurrection_history,
                   board_lock, pc, tasks_to_start, iteration, kills_left, ten_killed>>

\* agent.py 2128-2134, 2169: execute_task returned; complete and save under the lock
Complete(s) ==
    /\ Fut(s).pc = "returned"
    /\ board_lock = 0
    /\ status' = [status EXCEPT ![Fut(s).task] = "completed"]
    /\ pending_futures' = SetFut(s, DoneFuture(Fut(s).task))
    /\ unsaved' = board_save(TRUE)
    /\ UNCHANGED <<aux, waveVars, mode, deps, max_parallel, scope_locked, started_at, complexity,
                   blocked_reason, reaper_kill_count, resurrection_history,
                   board_lock, pc, tasks_to_start, iteration, kills_left, ten_killed>>

\* agent.py 2281-2295: a RuntimeError that is not a Reaper kill, or another exception
FailOther(s) ==
    /\ Fut(s).pc = "raised"
    /\ pending_futures' = SetFut(s, DoneFuture(Fut(s).task))
    /\ UNCHANGED <<aux, waveVars, unsaved, mode, deps, max_parallel, scope_locked, boardVars, board_lock,
                   pc, tasks_to_start, iteration, kills_left, ten_killed>>

\* providers.py 139-147: the Reaper kills the subprocess;
\* RuntimeError("Task killed by Reaper: <reason>") reaches agent.py 2170-2172
AttemptKilled(s, r) ==
    /\ Fut(s).pc = "exec"
    /\ kills_left > 0
    /\ kills_left' = kills_left - 1
    /\ pending_futures' = SetFut(s, [Fut(s) EXCEPT !.pc = "killed", !.err = r])
    /\ UNCHANGED <<aux, waveVars, unsaved, mode, deps, max_parallel, scope_locked, boardVars, board_lock,
                   pc, tasks_to_start, iteration, ten_killed>>

\* agent.py 2174-2176: take the lock, count the kill
KillCount(s) ==
    /\ Fut(s).pc = "killed"
    /\ board_lock = 0
    /\ board_lock' = s
    /\ LET t == Fut(s).task
       IN  /\ reaper_kill_count' = [reaper_kill_count EXCEPT ![t] = @ + 1]
           /\ pending_futures' =
                 SetFut(s, [Fut(s) EXCEPT !.pc = "corpse", !.kc = reaper_kill_count[t] + 1])
    /\ unsaved' = TRUE
    /\ UNCHANGED <<aux, waveVars, mode, deps, max_parallel, scope_locked, status, started_at,
                   complexity, blocked_reason, resurrection_history,
                   pc, tasks_to_start, iteration, kills_left, ten_killed>>

\* agent.py 2187-2200, 2220-2229: record the corpse; at the limit block, save, unlock, return
KillBlock(s) ==
    /\ Fut(s).pc = "corpse"
    /\ board_lock = s
    /\ Fut(s).kc >= MaxKills
    /\ LET t == Fut(s).task
       IN  /\ resurrection_history' =
                 [resurrection_history EXCEPT ![t] = append_corpse(@, Fut(s).kc)]
           /\ status' = [status EXCEPT ![t] = "blocked"]
           /\ blocked_reason' = [blocked_reason EXCEPT ![t] = Fut(s).kc]
           /\ ten_killed' = IF Fut(s).kc = MaxKills THEN ten_killed \cup {t} ELSE ten_killed
    /\ unsaved' = board_save(TRUE)
    /\ board_lock' = 0
    /\ pending_futures' = SetFut(s, DoneFuture(Fut(s).task))
    /\ UNCHANGED <<aux, waveVars, mode, deps, max_parallel, scope_locked, started_at, complexity,
                   reaper_kill_count, pc, tasks_to_start, iteration, kills_left>>

\* agent.py 2187-2195, 2201-2209: record the corpse; below the limit start the
\* negotiation (its two outcomes, an adjustment or an exception, differ only
\* in the text written to task.notes at 2211 and 2214)
KillRecord(s) ==
    /\ Fut(s).pc = "corpse"
    /\ board_lock = s
    /\ Fut(s).kc < MaxKills
    /\ LET t == Fut(s).task
       IN  resurrection_history' =
              [resurrection_history EXCEPT ![t] = append_corpse(@, Fut(s).kc)]
    /\ pending_futures' = SetFut(s, [Fut(s) EXCEPT !.pc = "negotiate"])
    /\ unsaved' = TRUE
    /\ UNCHANGED <<aux, waveVars, mode, deps, max_parallel, scope_locked, status, started_at,
                   complexity, blocked_reason, reaper_kill_count, board_lock,
                   pc, tasks_to_start, iteration, kills_left, ten_killed>>

\* KillReset that leaves started_at as the attempt set it
KillReset_keeps_started_at(s) ==
    /\ Fut(s).pc = "negotiate"
    /\ board_lock = s
    /\ status' = [status EXCEPT ![Fut(s).task] = "backlog"]
    /\ board_lock' = 0
    /\ pending_futures' =
          SetFut(s, IF should_reestimate(Fut(s).err, Fut(s).kc)
                    THEN [Fut(s) EXCEPT !.pc = "reest"]
                    ELSE DoneFuture(Fut(s).task))
    /\ unsaved' = board_save(TRUE)
    /\ UNCHANGED <<aux, waveVars, mode, deps, max_parallel, scope_locked, started_at, complexity,
                   blocked_reason, reaper_kill_count, resurrection_history, pc,
                   tasks_to_start, iteration, kills_left, ten_killed>>

\* KillReset that still holds the lock when the re-estimation starts
KillReset_keeps_lock(s) ==
    /\ Fut(s).pc = "negotiate"
    /\ board_lock = s
    /\ LET t == Fut(s).task
       IN  /\ status' = [status EXCEPT ![t] = "backlog"]
           /\ started_at' = [started_at EXCEPT ![t] = FALSE]
    /\ board_lock' = IF should_reestimate(Fut(s).err, Fut(s).kc) THEN s ELSE 0
    /\ pending_futures' =
          SetFut(s, IF should_reestimate(Fut(s).err, Fut(s).kc)
                    THEN [Fut(s) EXCEPT !.pc = "reest"]
                    ELSE DoneFuture(Fut(s).task))
    /\ unsaved' = board_save(TRUE)
    /\ UNCHANGED <<aux, waveVars, mode, deps, max_parallel, scope_locked, complexity, blocked_reason,
                   reaper_kill_count, resurrection_history, pc, tasks_to_start,
                   iteration, kills_left, ten_killed>>

\* agent.py 2208-2244, 2273-2279: negotiate_resurrection returned or raised; reset to
\* BACKLOG, save, unlock; then start the re-estimation or return "retry"
KillReset(s) ==
    /\ Fut(s).pc = "negotiate"
    /\ board_lock = s
    /\ LET t == Fut(s).task
       IN  /\ status' = [status EXCEPT ![t] = "backlog"]
           /\ started_at' = [started_at EXCEPT ![t] = FALSE]
    /\ board_lock' = 0
    /\ pending_futures' =
          SetFut(s, IF should_reestimate(Fut(s).err, Fut(s).kc)
                    THEN [Fut(s) EXCEPT !.pc = "reest"]
                    ELSE DoneFuture(Fut(s).task))
    /\ unsaved' = board_save(TRUE)
    /\ UNCHANGED <<aux, waveVars, mode, deps, max_parallel, scope_locked, complexity, blocked_reason,
                   reaper_kill_count, resurrection_history, pc, tasks_to_start,
                   iteration, kills_left, ten_killed>>

\* agent.py 2254 (1996-2008): the deliberation, made of LLM calls, comes back
\* with a verdict; no lock is taken
Deliberate(s, v) ==
    /\ Fut(s).pc = "reest"
    /\ pending_futures' = SetFut(s, [Fut(s) EXCEPT !.pc = "resize", !.verdict = v])
    /\ UNCHANGED <<aux, waveVars, unsaved, mode, deps, max_parallel, scope_locked, boardVars, board_lock,
                   pc, tasks_to_start, iteration, kills_left, ten_killed>>

\* agent.py 2010-2032, 2256-2259, 2279: parse the verdict; resize under the lock
\* if it names a different size; return "retry"
Resize(s) ==
    /\ Fut(s).pc = "resize"
    /\ LET t == Fut(s).task
           new_complexity == run_reestimation_discussion(Fut(s).verdict)
       IN  IF new_complexity # NoComplexity /\ new_complexity # complexity[t]
           THEN /\ board_lock = 0
                /\ complexity' = [complexity EXCEPT ![t] = new_complexity]
                /\ unsaved' = board_save(TRUE)
           ELSE UNCHANGED <<complexity, unsaved>>
    /\ pending_futures' = SetFut(s, DoneFuture(Fut(s).task))
    /\ UNCHANGED <<aux, waveVars, mode, deps, max_parallel, scope_locked, status, started_at,
                   blocked_reason, reaper_kill_count, resurrection_history,
                   board_lock, pc, tasks_to_start, iteration, kills_left, ten_killed>>

(***************************************************************************)
(* The iteration loop: run_sprint_loop                                     *)
(***************************************************************************)
\* agent.py 2766-2769: reset for the next sprint, keeping completed ones
reset_statuses(st) ==
    [t \in TaskIds |-> IF st[t] \notin {"completed", "skipped"} THEN "backlog" ELSE st[t]]

\* agent.py 2710-2725: the critic is satisfied, or the cap is reached
CriticEnds(success) ==
    /\ pc = "returned"
    /\ success \/ iteration >= MaxIterations
    /\ pc' = "finished"
    /\ ten_killed' = {}
    /\ UNCHANGED <<aux, waveVars, unsaved, mode, deps, max_parallel, scope_locked, boardVars, board_lock,
                   pending_futures, tasks_to_start, iteration, kills_left>>

\* agent.py 2745-2786: the critic rejects; reset, re-plan, save, next iteration
CriticRejects ==
    /\ pc = "returned"
    /\ iteration < MaxIterations
    /\ status' = reset_statuses(status)
    /\ iteration' = iteration + 1
    /\ pc' = "begin"
    /\ ten_killed' = {}
    /\ unsaved' = board_save(TRUE)
    /\ UNCHANGED <<aux, waveVars, mode, deps, max_parallel, scope_locked, started_at, complexity,
                   blocked_reason, reaper_kill_count, resurrection_history,
                   board_lock, pending_futures, tasks_to_start, kills_left>>

Next ==
    \/ SchedBegin
    \/ SchedCollect
    \/ \E issues \in BOOLEAN : SchedWave(issues)
    \/ SchedStart
    \/ SchedExitCheck
    \/ SchedWait
    \/ \E s \in Slots, rc \in ExitCodes : AttemptExits(s, rc)
    \/ \E s \in Slots : Complete(s)
    \/ \E s \in Slots : FailOther(s)
    \/ \E s \in Slots, r \in KillReasons : AttemptKilled(s, r)
    \/ \E s \in Slots : KillCount(s)
    \/ \E s \in Slots : KillBlock(s)
    \/ \E s \in Slots : KillRecord(s)
    \/ \E s \in Slots : KillReset(s)
    \/ \E s \in Slots, v \in Verdicts : Deliberate(s, v)
    \/ \E s \in Slots : Resize(s)
    \/ \E success \in BOOLEAN : CriticEnds(success)
    \/ CriticRejects

Spec == Init /\ [][Next]_vars

TypeOK ==
    /\ mode \in Modes
    /\ status \in [TaskIds -> Statuses]
    /\ complexity \in [TaskIds -> Complexities]
    /\ board_lock \in 0..MaxParallelBound
    /\ pc \in {"begin", "top", "wave", "start", "returned", "finished"}

(***************************************************************************)
(* Scheduling: the main thread keeps running, every worker thread keeps    *)
(* running and gets the lock when it is released often enough, and every   *)
(* attempt's subprocess ends (it exits or the Reaper kills it).            *)
(***************************************************************************)
MainThread ==
    \/ SchedBegin
    \/ SchedCollect
    \/ \E issues \in BOOLEAN : SchedWave(issues)
    \/ SchedStart
    \/ SchedExitCheck
    \/ SchedWait
    \/ \E success \in BOOLEAN : CriticEnds(success)
    \/ CriticRejects

Worker(s) ==
    \/ \E rc \in ExitCodes : AttemptExits(s, rc)
    \/ Complete(s)
    \/ FailOther(s)
    \/ \E r \in KillReasons : AttemptKilled(s, r)
    \/ KillCount(s)
    \/ KillBlock(s)
    \/ KillRecord(s)
    \/ KillReset(s)
    \/ \E v \in Verdicts : Deliberate(s, v)
    \/ Resize(s)

FairSpec ==
    /\ Init
    /\ [][Next]_vars
    /\ SF_vars(MainThread)
    /\ \A s \in Slots : SF_vars(Worker(s))


(***************************************************************************)
(* One call of calculate_waves                                             *)
(***************************************************************************)
\* the arguments of a call: only the listed tasks have dependencies
CalcInputs ==
    { [pc |-> "call", tasks |-> ts, deps |-> d, completed |-> ac, waves |-> <<>>] :
        ts \in TaskLists,
        d \in [WaveTaskIds -> {D \in SUBSET WaveDepIds : Cardinality(D) <= MaxDeps}],
        ac \in SUBSET {"c", "x"} }

CalcInit ==
    /\ calc \in {c \in CalcInputs :
                   \A t \in WaveTaskIds \ Elems(c.tasks) : c.deps[t] = {}}
    /\ attempt = NoAttempt
    /\ nego = NoNego
    /\ sloop = NoLoop
    /\ plan = NoPlan
    /\ reaper = NoReaper
    /\ wsched = NoGuard
    /\ mode = "sprint"
    /\ deps = [t \in TaskIds |-> {}]
    /\ max_parallel = 1
    /\ scope_locked = FALSE
    /\ status = [t \in TaskIds |-> "backlog"]
    /\ started_at = [t \in TaskIds |-> FALSE]
    /\ complexity = [t \in TaskIds |-> "small"]
    /\ blocked_reason = [t \in TaskIds |-> 0]
    /\ reaper_kill_count = [t \in TaskIds |-> 0]
    /\ resurrection_history = [t \in TaskIds |-> <<>>]
    /\ board_lock = 0
    /\ pending_futures = [s \in Slots |-> NoFuture]
    /\ pc = "begin"
    /\ tasks_to_start = <<>>
    /\ iteration = 1
    /\ kills_left = 0
    /\ ten_killed = {}
    /\ task_wave_map = [t \in TaskIds |-> 0]
    /\ current_wave = 0
    /\ integration_notes = 0
    /\ unsaved = FALSE

\* the call returns its waves
CalcWaves ==
    /\ calc.pc = "call"
    /\ calc' = [calc EXCEPT !.pc = "returned",
                            !.waves = calculate_waves(calc.tasks, calc.deps,
                                                      calc.completed)]
    /\ UNCHANGED <<mainVars, attempt, nego, sloop, plan, reaper, wsched>>

CalcSpec == CalcInit /\ [][CalcWaves]_vars

(***************************************************************************)
(* The liveness supervisor: reaper_monitor_task (agent.py 158-361) and its *)
(* helpers, as functions of the attempt's output lines, its silence and    *)
(* elapsed seconds, the process probe and the guardian's answer.           *)
(***************************************************************************)
\* providers.py:124  now - last_reaper_check >= 30
ReaperCheckInterval == 30
\* agent.py:122  threshold: int = 30
LoopThreshold == 30
\* agent.py:131  check_window = min(len(recent_output), 50)
LoopWindow == 50
\* agent.py:180  elapsed_seconds < 1800 with no output at all
WarmupSeconds == 1800
\* agent.py:182  elapsed_seconds < 60 and len(recent_output) < 3
EarlySeconds == 60
EarlyLines == 3
\* agent.py:196, 215, 243  silence_seconds > 900, < 900
SilenceSeconds == 900
\* agent.py:220, 228  the grace of a heartbeat that is the last line
HeartbeatGraceSeconds == 1800
\* agent.py:204  cpu > 50.0
HighCpu == 50

\* the token find_last_heartbeat_age looks for, agent.py 152
HeartbeatLine == "[WAVERUNNER_HEARTBEAT]"

HasHeartbeat(line) == line = HeartbeatLine

\* what get_process_status may report: (cpu percent, state, open connections)
ProbeUnavailable == [cpu |-> 0, state |-> "unknown", conns |-> 0]

Probes ==
    [cpu : {0, 50, 80},
     state : {"running", "sleeping", "zombie", "disk-sleep"}, conns : {0, 1}]
    \cup {ProbeUnavailable}

\* the guardian's answer contains KILL, or does not
LlmAnswers == {"KILL", "CONTINUE"}

\* the last n lines, recent_output[-n:]
LastLines(out, n) ==
    IF Len(out) <= n THEN out ELSE SubSeq(out, Len(out) - n + 1, Len(out))

CountOf(q, line) == Cardinality({i \in 1..Len(q) : q[i] = line})

\* detect_infinite_loop that counts over the whole output, not its last 50 lines
detect_infinite_loop_whole_output(out) ==
    IF Len(out) = 0 \/ Len(out) < LoopThreshold THEN FALSE
    ELSE \E i \in 1..Len(out) : CountOf(out, out[i]) >= LoopThreshold

\* agent.py 122-140
detect_infinite_loop(out) ==
    IF Len(out) = 0 \/ Len(out) < LoopThreshold THEN FALSE
    ELSE LET recent_lines == LastLines(out, LoopWindow)
         IN  \E i \in 1..Len(recent_lines) :
                 CountOf(recent_lines, recent_lines[i]) >= LoopThreshold

\* agent.py 143-155: lines since the last heartbeat, -1 if there is none
find_last_heartbeat_age(out) ==
    LET hits == {i \in 0..(Len(out) - 1) : HasHeartbeat(out[Len(out) - i])}
    IN  IF hits = {} THEN -1
        ELSE CHOOSE i \in hits : \A j \in hits : i <= j

Continue == [action |-> "CONTINUE", reason |-> "none"]

Kill(reason) == [action |-> "KILL", reason |-> reason]

\* reaper_llm_fallback that leaves the guardian out when nothing is known of
\* the process
reaper_llm_fallback_skips_unknown(silence_seconds, has_pid, probe2, llm) ==
    IF silence_seconds < SilenceSeconds THEN Continue
    ELSE IF ~has_pid \/ probe2.state = "unknown" THEN Continue
    ELSE IF probe2.cpu > 0 THEN Continue
    ELSE IF probe2.conns > 0 THEN Continue
    ELSE IF llm = "KILL" THEN Kill("llm") ELSE Continue

\* reaper_llm_fallback that asks the guardian however short the silence
reaper_llm_fallback_always_asks(silence_seconds, has_pid, probe2, llm) ==
    IF has_pid /\ probe2.cpu > 0 THEN Continue
    ELSE IF has_pid /\ probe2.conns > 0 THEN Continue
    ELSE IF llm = "KILL" THEN Kill("llm") ELSE Continue

\* agent.py 234-361: the fallback; the probe is read a second time (probe2),
\* the guardian is asked only with long silence, no CPU use and no open connection
reaper_llm_fallback(silence_seconds, has_pid, probe2, llm) ==
    IF silence_seconds < SilenceSeconds THEN Continue
    ELSE IF has_pid /\ probe2.cpu > 0 THEN Continue
    ELSE IF has_pid /\ probe2.conns > 0 THEN Continue
    ELSE IF llm = "KILL" THEN Kill("llm") ELSE Continue

\* the heartbeat check that accepts a heartbeat anywhere in the output
reaper_heartbeat_check_any_heartbeat(out, silence_seconds, has_pid, probe, probe2, llm) ==
    IF Len(out) > 0 /\ silence_seconds > SilenceSeconds
    THEN LET lines_since_heartbeat == find_last_heartbeat_age(out)
         IN  IF lines_since_heartbeat >= 0 /\ silence_seconds < HeartbeatGraceSeconds
             THEN Continue
             ELSE IF lines_since_heartbeat < 0 THEN Kill("no_heartbeat")
             ELSE Kill("stale_heartbeat")
    ELSE reaper_llm_fallback(silence_seconds, has_pid, probe2, llm)

\* agent.py 211-229: the heartbeat check
reaper_heartbeat_check(out, silence_seconds, has_pid, probe, probe2, llm) ==
    IF Len(out) > 0 /\ silence_seconds > SilenceSeconds
    THEN LET lines_since_heartbeat == find_last_heartbeat_age(out)
         IN  IF lines_since_heartbeat = 0 /\ silence_seconds < HeartbeatGraceSeconds
             THEN Continue
             ELSE IF lines_since_heartbeat < 0 THEN Kill("no_heartbeat")
             ELSE IF lines_since_heartbeat > 0 THEN Kill("old_heartbeat")
             ELSE IF silence_seconds >= HeartbeatGraceSeconds
                  THEN Kill("stale_heartbeat")
                  ELSE reaper_llm_fallback(silence_seconds, has_pid, probe2, llm)
    ELSE reaper_llm_fallback(silence_seconds, has_pid, probe2, llm)

\* the process status check that looks at the state of the process first
reaper_process_check_state_first(out, silence_seconds, has_pid, probe, probe2, llm) ==
    IF has_pid /\ silence_seconds > SilenceSeconds
    THEN IF probe.state \in {"zombie", "disk-sleep"} THEN Kill("bad_state")
         ELSE IF probe.conns > 0 THEN Continue
         ELSE IF probe.cpu > HighCpu THEN Continue
         ELSE reaper_heartbeat_check(out, silence_seconds, has_pid, probe, probe2, llm)
    ELSE reaper_heartbeat_check(out, silence_seconds, has_pid, probe, probe2, llm)

\* agent.py 193-209: the process status check
reaper_process_check(out, silence_seconds, has_pid, probe, probe2, llm) ==
    IF has_pid /\ silence_seconds > SilenceSeconds
    THEN IF probe.conns > 0 THEN Continue
         ELSE IF probe.cpu > HighCpu THEN Continue
         ELSE IF probe.state \in {"zombie", "disk-sleep"} THEN Kill("bad_state")
         ELSE reaper_heartbeat_check(out, silence_seconds, has_pid, probe, probe2, llm)
    ELSE reaper_heartbeat_check(out, silence_seconds, has_pid, probe, probe2, llm)

\* agent.py 158-361
reaper_monitor_task(out, silence_seconds, elapsed_seconds, has_pid, probe, probe2, llm) ==
    IF Len(out) = 0 /\ elapsed_seconds < WarmupSeconds THEN Continue
    ELSE IF Len(out) > 0 /\ elapsed_seconds < EarlySeconds /\ Len(out) < EarlyLines
         THEN Continue
    ELSE IF Len(out) > 0 /\ detect_infinite_loop(out) THEN Kill("loop")
    ELSE reaper_process_check(out, silence_seconds, has_pid, probe, probe2, llm)

\* agent.py 350-361: this call reaches run_claude; the verdict "llm" is the
\* only one made of the guardian's answer
reaper_asks_llm(out, silence_seconds, elapsed_seconds, has_pid, probe, probe2) ==
    reaper_monitor_task(out, silence_seconds, elapsed_seconds, has_pid,
                        probe, probe2, "KILL") = Kill("llm")

(***************************************************************************)
(* One call of reaper_monitor_task: the output read so far, the silence    *)
(* and the elapsed seconds, the two readings of get_process_status and the *)
(* guardian's answer are drawn, and the call gives its verdict.            *)
(***************************************************************************)
\* outputs a check may find: none, ordinary lines, a heartbeat first, last or
\* alone, and one line repeated 30 times
ReaperOutputs ==
    { <<>>, <<"working">>, <<HeartbeatLine>>, <<HeartbeatLine, "working">>,
      <<"working", HeartbeatLine>>, <<"a", "b", "c">>,
      [i \in 1..LoopThreshold |-> "working"] }

\* (silence, elapsed) in seconds around the thresholds of the rules
ReaperSilences == {0, 899, 900, 901, 1799, 1800, 2400}

ReaperElapsed == {30, 60, 1799, 1800, 2400}

ReaperInit ==
    /\ reaper \in
          { [pc |-> "call", recent_output |-> out, silence_seconds |-> s,
             elapsed_seconds |-> e, has_pid |-> pid, probe |-> ProbeUnavailable,
             probe2 |-> ProbeUnavailable, llm |-> "CONTINUE",
             verdict |-> Continue, asked |-> FALSE] :
              out \in ReaperOutputs, s \in ReaperSilences,
              e \in ReaperElapsed, pid \in BOOLEAN }
    /\ reaper.silence_seconds <= reaper.elapsed_seconds
    /\ calc = NoCalc
    /\ attempt = NoAttempt
    /\ nego = NoNego
    /\ sloop = NoLoop
    /\ plan = NoPlan
    /\ wsched = NoGuard
    /\ mode = "sprint"
    /\ deps = [t \in TaskIds |-> {}]
    /\ max_parallel = 1
    /\ scope_locked = FALSE
    /\ status = [t \in TaskIds |-> "backlog"]
    /\ started_at = [t \in TaskIds |-> FALSE]
    /\ complexity = [t \in TaskIds |-> "small"]
    /\ blocked_reason = [t \in TaskIds |-> 0]
    /\ reaper_kill_count = [t \in TaskIds |-> 0]
    /\ resurrection_history = [t \in TaskIds |-> <<>>]
    /\ board_lock = 0
    /\ pending_futures = [s \in Slots |-> NoFuture]
    /\ pc = "begin"
    /\ tasks_to_start = <<>>
    /\ iteration = 1
    /\ kills_left = 0
    /\ ten_killed = {}
    /\ task_wave_map = [t \in TaskIds |-> 0]
    /\ current_wave = 0
    /\ integration_notes = 0
    /\ unsaved = FALSE

\* agent.py 158-361: the call returns its verdict; get_process_status reads
\* `probe` (196) and `probe2` (252), the guardian would answer `llm`, and
\* `asked` tells whether the call went through run_claude (350)
ReaperCall(probe, probe2, llm) ==
    /\ reaper.pc = "call"
    /\ LET r == reaper
       IN  reaper' =
             [r EXCEPT !.pc = "returned",
                       !.probe = probe,
                       !.probe2 = probe2,
                       !.llm = llm,
                       !.verdict = reaper_monitor_task(
                                       r.recent_output, r.silence_seconds,
                                       r.elapsed_seconds, r.has_pid, probe,
                                       probe2, llm),
                       !.asked = reaper_asks_llm(
                                     r.recent_output, r.silence_seconds,
                                     r.elapsed_seconds, r.has_pid, probe,
                                     probe2)]
    /\ UNCHANGED <<mainVars, calc, attempt, nego, sloop, plan, wsched>>

\* without a pid get_process_status is never called
ReaperNext ==
    /\ reaper.pc = "call"
    /\ \E probe \in Probes, probe2 \in Probes, llm \in LlmAnswers :
          /\ ~reaper.has_pid => probe = ProbeUnavailable /\ probe2 = ProbeUnavailable
          /\ ReaperCall(probe, probe2, llm)

ReaperSpec == ReaperInit /\ [][ReaperNext]_vars

(***************************************************************************)
(* One attempt: the read loop of ClaudeCodeProvider.run (providers.py      *)
(* 111-230) over a subprocess that follows a script, one loop pass per     *)
(* second, and the handler of execute_and_complete that takes its outcome. *)
(***************************************************************************)
\* what the subprocess does: from `first` on it prints a line every `period`
\* seconds (never if period = 0), `line` and `line2` in turn, until `quiet_at`,
\* and it exits with code rc at `exit_at`
Scripts ==
    { [kind |-> "heartbeat", line |-> HeartbeatLine, line2 |-> HeartbeatLine,
       period |-> 50, first |-> f, quiet_at |-> 1200, exit_at |-> 1200,
       rc |-> 0] : f \in {20, 50} }
    \cup
    { [kind |-> "long_heartbeat", line |-> HeartbeatLine,
       line2 |-> HeartbeatLine, period |-> 60, first |-> 60,
       quiet_at |-> 2000, exit_at |-> 2000, rc |-> 0] }
    \cup
    { [kind |-> "silent", line |-> "", line2 |-> "", period |-> 0,
       first |-> 0, quiet_at |-> 1900, exit_at |-> 1900, rc |-> rc] :
         rc \in {0, -15} }
    \cup
    { [kind |-> "repeating", line |-> "Error: connection refused",
       line2 |-> l2, period |-> 1, first |-> f, quiet_at |-> q,
       exit_at |-> 100, rc |-> 0] :
         l2 \in {"Error: connection refused", "retrying"},
         f \in {0, 1}, q \in {30, 100} }

\* the timeout argument: 0 for None (agent.py 1915-1923)
Timeouts == {0, 600}

Min(x, y) == IF x <= y THEN x ELSE y

\* the number of lines the subprocess has printed by time t
Emitted(sc, t) ==
    IF sc.period = 0 \/ t < sc.first THEN 0
    ELSE ((Min(Min(t, sc.exit_at), sc.quiet_at) - sc.first) \div sc.period) + 1

\* the k-th line the subprocess prints
LineAt(sc, k) == IF k % 2 = 1 THEN sc.line ELSE sc.line2

AttemptInit ==
    /\ attempt \in
          { [pc |-> "running", script |-> sc, timeout |-> to, now |-> 0,
             last_output_time |-> 0, last_reaper_check |-> 0,
             output_lines |-> <<>>, signals |-> <<>>, reason |-> "none",
             task_status |-> "in_progress"] : sc \in Scripts, to \in Timeouts }
    /\ calc = NoCalc
    /\ nego = NoNego
    /\ sloop = NoLoop
    /\ plan = NoPlan
    /\ reaper = NoReaper
    /\ wsched = NoGuard
    /\ mode = "sprint"
    /\ deps = [t \in TaskIds |-> {}]
    /\ max_parallel = 1
    /\ scope_locked = FALSE
    /\ status = [t \in TaskIds |-> "backlog"]
    /\ started_at = [t \in TaskIds |-> FALSE]
    /\ complexity = [t \in TaskIds |-> "small"]
    /\ blocked_reason = [t \in TaskIds |-> 0]
    /\ reaper_kill_count = [t \in TaskIds |-> 0]
    /\ resurrection_history = [t \in TaskIds |-> <<>>]
    /\ board_lock = 0
    /\ pending_futures = [s \in Slots |-> NoFuture]
    /\ pc = "begin"
    /\ tasks_to_start = <<>>
    /\ iteration = 1
    /\ kills_left = 0
    /\ ten_killed = {}
    /\ task_wave_map = [t \in TaskIds |-> 0]
    /\ current_wave = 0
    /\ integration_notes = 0
    /\ unsaved = FALSE

\* Popen.kill(), providers.py 117 and 140: SIGKILL on POSIX
process_kill == "SIGKILL"

\* providers.py 111-230: one pass of the loop: the timeout check, the Reaper
\* check every 30 s while the process runs, the poll, the read of one line,
\* and, once the process is done, the drain and the exit-code handling; a
\* timeout and a KILL verdict signal the process and leave the loop at once,
\* without a wait and without reading what is left in the pipe
ProviderLoop(probe, probe2, llm) ==
    /\ attempt.pc = "running"
    /\ LET a == attempt
           timed_out == a.timeout # 0 /\ a.now > a.timeout
           running == a.now < a.script.exit_at
           check_due == a.now - a.last_reaper_check >= ReaperCheckInterval
           verdict == IF check_due /\ running
                      THEN reaper_monitor_task(a.output_lines,
                                               a.now - a.last_output_time,
                                               a.now, TRUE, probe, probe2, llm)
                      ELSE Continue
           got_output == Len(a.output_lines) < Emitted(a.script, a.now)
           read == IF got_output
                   THEN Append(a.output_lines,
                               LineAt(a.script, Len(a.output_lines) + 1))
                   ELSE a.output_lines
           drained == read \o [i \in 1..(Emitted(a.script, a.now) - Len(read))
                                 |-> LineAt(a.script, Len(read) + i)]
       IN  attempt' =
             IF timed_out
             THEN [a EXCEPT !.pc = "returned", !.reason = "timeout",
                            !.signals = Append(@, process_kill)]
             ELSE IF verdict.action = "KILL"
             THEN [a EXCEPT !.pc = "killed", !.reason = verdict.reason,
                            !.signals = Append(@, process_kill)]
             ELSE IF ~running
             THEN [a EXCEPT !.pc = IF ProviderRun(a.script.rc) = "output"
                                   THEN "returned" ELSE "raised",
                            !.last_reaper_check = IF check_due THEN a.now ELSE @,
                            !.last_output_time = IF got_output THEN a.now ELSE @,
                            !.output_lines = drained]
             ELSE [a EXCEPT !.now = @ + 1,
                            !.last_reaper_check = IF check_due THEN a.now ELSE @,
                            !.last_output_time = IF got_output THEN a.now ELSE @,
                            !.output_lines = read]
    /\ UNCHANGED <<mainVars, calc, nego, sloop, plan, reaper, wsched>>

\* agent.py 2128-2134, 2170-2279, 2281-2295: what execute_and_complete makes
\* of the outcome of a first attempt
AttemptOutcome ==
    /\ attempt.pc \in {"returned", "killed", "raised"}
    /\ attempt' =
          [attempt EXCEPT !.pc = "handled",
                          !.task_status =
                              CASE attempt.pc = "returned" -> "completed"
                                [] attempt.pc = "killed"   -> "backlog"
                                [] OTHER                   -> "in_progress"]
    /\ UNCHANGED <<mainVars, calc, nego, sloop, plan, reaper, wsched>>

\* this pass calls the Reaper: the probe is read and the guardian may be asked
ReaperCheckDue ==
    /\ attempt.pc = "running"
    /\ attempt.now - attempt.last_reaper_check >= ReaperCheckInterval
    /\ attempt.now < attempt.script.exit_at

AttemptNext ==
    \/ /\ ReaperCheckDue
       /\ \E probe \in Probes, probe2 \in Probes, llm \in LlmAnswers :
             ProviderLoop(probe, probe2, llm)
    \/ /\ ~ReaperCheckDue
       /\ ProviderLoop(ProbeUnavailable, ProbeUnavailable, "CONTINUE")
    \/ AttemptOutcome

AttemptSpec == AttemptInit /\ [][AttemptNext]_vars

(***************************************************************************)
(* negotiate_resurrection (agent.py 1618-1709), one call on its own.       *)
(* A text is a sequence of words; " " stands for surrounding white space.  *)
(***************************************************************************)
MaxRounds == 3

\* str.upper(), word by word
Upper(w) ==
    CASE w = "Approved" -> "APPROVED"
      [] w = "rejected" -> "REJECTED"
      [] w = "not"      -> "NOT"
      [] w = "same"     -> "SAME"
      [] w = "fine"     -> "FINE"
      [] w = "hm"       -> "HM"
      [] OTHER          -> w

\* `word in text.upper()`
InUpper(word, text) == \E i \in 1..Len(text) : Upper(text[i]) = word

\* what the guardian may answer
ReaperResponses ==
    { <<"APPROVED", "fine">>, <<"Approved", "fine">>, <<"REJECTED", "same">>,
      <<"REJECTED", "not", "APPROVED">>, <<"hm">> }

\* what the agent may propose
AgentResponses == { <<"split">>, <<" ", "retry", " ">> }

\* run_claude raised instead of answering
CallFailed == <<"run_claude", "raised">>

RECURSIVE lstrip(_)
lstrip(text) ==
    IF text # <<>> /\ Head(text) = " " THEN lstrip(Tail(text)) ELSE text

RECURSIVE rstrip(_)
rstrip(text) ==
    IF text # <<>> /\ text[Len(text)] = " "
    THEN rstrip(SubSeq(text, 1, Len(text) - 1)) ELSE text

\* str.strip()
strip(text) == lstrip(rstrip(text))

\* agent.py 1694: `if "APPROVED" in reaper_response.upper()`
reaper_approved(reaper_response) == InUpper("APPROVED", reaper_response)

\* agent.py 1699: `elif "REJECTED" in reaper_response.upper()`
reaper_rejected(reaper_response) ==
    ~reaper_approved(reaper_response) /\ InUpper("REJECTED", reaper_response)

\* one round too many
negotiation_rounds_one_more(max_rounds) == 1..(max_rounds + 1)

\* agent.py 1651: `for round_num in range(1, max_rounds + 1)`
negotiation_rounds(max_rounds) == 1..max_rounds

NegoInit ==
    /\ nego \in { [pc |-> "agent", max_rounds |-> r, round_num |-> 1,
                   calls |-> <<>>, agent_response |-> <<>>,
                   history_context |-> <<>>, result |-> <<>>,
                   error |-> "none"] : r \in 1..MaxRounds }
    /\ calc = NoCalc
    /\ attempt = NoAttempt
    /\ sloop = NoLoop
    /\ plan = NoPlan
    /\ reaper = NoReaper
    /\ wsched = NoGuard
    /\ mode = "sprint"
    /\ deps = [t \in TaskIds |-> {}]
    /\ max_parallel = 1
    /\ scope_locked = FALSE
    /\ status = [t \in TaskIds |-> "backlog"]
    /\ started_at = [t \in TaskIds |-> FALSE]
    /\ complexity = [t \in TaskIds |-> "small"]
    /\ blocked_reason = [t \in TaskIds |-> 0]
    /\ reaper_kill_count = [t \in TaskIds |-> 0]
    /\ resurrection_history = [t \in TaskIds |-> <<>>]
    /\ board_lock = 0
    /\ pending_futures = [s \in Slots |-> NoFuture]
    /\ pc = "begin"
    /\ tasks_to_start = <<>>
    /\ iteration = 1
    /\ kills_left = 0
    /\ ten_killed = {}
    /\ task_wave_map = [t \in TaskIds |-> 0]
    /\ current_wave = 0
    /\ integration_notes = 0
    /\ unsaved = FALSE

\* agent.py 1653-1668: the agent is asked for an adjustment; `calls` is the
\* list of answers run_claude has given to this call of the negotiation
NegoAgent(answer) ==
    /\ nego.pc = "agent"
    /\ nego' = IF answer = CallFailed
               THEN [nego EXCEPT !.pc = "raised", !.error = "call_failed",
                                 !.calls = Append(@, answer)]
               ELSE [nego EXCEPT !.pc = "guardian", !.agent_response = answer,
                                 !.calls = Append(@, answer)]
    /\ UNCHANGED <<mainVars, calc, attempt, sloop, plan, reaper, wsched>>

\* agent.py 1670-1709: the guardian is asked for its judgment, and the round
\* ends: return on approval, else the next round or the final exception
NegoGuardian(answer) ==
    /\ nego.pc = "guardian"
    /\ LET more == nego.round_num + 1 \in negotiation_rounds(nego.max_rounds)
       IN  nego' =
             IF answer = CallFailed
             THEN [nego EXCEPT !.pc = "raised", !.error = "call_failed",
                               !.calls = Append(@, answer)]
             ELSE IF reaper_approved(answer)
             THEN [nego EXCEPT !.pc = "returned",
                               !.result = strip(nego.agent_response),
                               !.calls = Append(@, answer)]
             ELSE [nego EXCEPT !.pc = IF more THEN "agent" ELSE "raised",
                               !.error = IF more THEN "none" ELSE "no_agreement",
                               !.round_num = IF more THEN @ + 1 ELSE @,
                               !.history_context =
                                   IF reaper_rejected(answer)
                                   THEN Append(@, nego.round_num) ELSE @,
                               !.calls = Append(@, answer)]
    /\ UNCHANGED <<mainVars, calc, attempt, sloop, plan, reaper, wsched>>

NegoNext ==
    \/ \E answer \in AgentResponses \cup {CallFailed} : NegoAgent(answer)
    \/ \E answer \in ReaperResponses \cup {CallFailed} : NegoGuardian(answer)

NegoSpec == NegoInit /\ [][NegoNext]_vars

(***************************************************************************)
(* run_sprint_loop (agent.py 2683-2788), one call on its own: run_sprint   *)
(* and the planner are single steps, the critic answers anything.  A goal  *)
(* is a sequence of words.                                                 *)
(***************************************************************************)
MaxCap == 4

MaxUncapped == 5

\* Optional[int]: None, or an integer
NoCap == [is_none |-> TRUE, value |-> 0]

Cap(n) == [is_none |-> FALSE, value |-> n]

\* str.lower(), word by word
LowerWord(w) == IF w = "Fix" THEN "fix" ELSE w

lower(text) == [i \in 1..Len(text) |-> LowerWord(text[i])]

\* `a in b` on strings
contains(a, b) ==
    \E i \in 0..(Len(b) - Len(a)) : SubSeq(b, i + 1, i + Len(a)) = a

\* what the critic may give as follow_up_goal; <<>> is "" (or a missing one)
FollowUpGoals ==
    { <<>>, <<"fix", "tests">>, <<"Fix", "tests", "now">>, <<"add", "docs">> }

\* agent.py 2730-2734 with a containment in one direction only
goal_similar_one_way(prev_goal, follow_up_goal) ==
    /\ prev_goal # <<>>
    /\ follow_up_goal # <<>>
    /\ contains(lower(prev_goal), lower(follow_up_goal))

\* agent.py 2730-2734: the condition of the sum
goal_similar(prev_goal, follow_up_goal) ==
    /\ prev_goal # <<>>
    /\ follow_up_goal # <<>>
    /\ \/ contains(lower(prev_goal), lower(follow_up_goal))
       \/ contains(lower(follow_up_goal), lower(prev_goal))

\* previous_goals[-2:]
LastTwo(previous_goals) ==
    SubSeq(previous_goals, Len(previous_goals) - Min(Len(previous_goals), 2) + 1,
           Len(previous_goals))

\* agent.py 2728-2735: `iteration >= 3 and follow_up_goal` and
\* `recent_similar >= 2`
goal_loop_detected(it, previous_goals, follow_up_goal) ==
    /\ it >= 3
    /\ follow_up_goal # <<>>
    /\ Cardinality({i \in 1..Len(LastTwo(previous_goals)) :
                      goal_similar(LastTwo(previous_goals)[i], follow_up_goal)}) >= 2

\* the loop goes on whatever the cap
loop_continues_uncapped(it, max_iterations) == TRUE

\* agent.py 2700: `while max_iterations is None or iteration <= max_iterations`
loop_continues(it, max_iterations) ==
    max_iterations.is_none \/ it <= max_iterations.value

\* agent.py 2721: `max_iterations is not None and iteration >= max_iterations`
cap_reached(it, max_iterations) ==
    ~max_iterations.is_none /\ it >= max_iterations.value

LoopInit ==
    /\ sloop \in { [pc |-> "top", max_iterations |-> n, iteration |-> 1,
                    previous_goals |-> <<>>, success |-> FALSE,
                    follow_up_goal |-> <<>>, sprints |-> 0, resets |-> 0,
                    plans |-> 0, outcome |-> "none"] :
                   n \in {Cap(k) : k \in 0..MaxCap} \cup {NoCap} }
    /\ calc = NoCalc
    /\ attempt = NoAttempt
    /\ nego = NoNego
    /\ plan = NoPlan
    /\ reaper = NoReaper
    /\ wsched = NoGuard
    /\ mode = "sprint"
    /\ deps = [t \in TaskIds |-> {}]
    /\ max_parallel = 1
    /\ scope_locked = FALSE
    /\ status = [t \in TaskIds |-> "backlog"]
    /\ started_at = [t \in TaskIds |-> FALSE]
    /\ complexity = [t \in TaskIds |-> "small"]
    /\ blocked_reason = [t \in TaskIds |-> 0]
    /\ reaper_kill_count = [t \in TaskIds |-> 0]
    /\ resurrection_history = [t \in TaskIds |-> <<>>]
    /\ board_lock = 0
    /\ pending_futures = [s \in Slots |-> NoFuture]
    /\ pc = "begin"
    /\ tasks_to_start = <<>>
    /\ iteration = 1
    /\ kills_left = 0
    /\ ten_killed = {}
    /\ task_wave_map = [t \in TaskIds |-> 0]
    /\ current_wave = 0
    /\ integration_notes = 0
    /\ unsaved = FALSE

\* agent.py 2700-2707: the loop condition holds and run_sprint is called
\* (an uncapped loop is followed for MaxUncapped iterations)
LoopSprint ==
    /\ sloop.pc = "top"
    /\ loop_continues(sloop.iteration, sloop.max_iterations)
    /\ sloop.iteration <= MaxUncapped
    /\ sloop' = [sloop EXCEPT !.pc = "critic", !.sprints = @ + 1]
    /\ UNCHANGED <<mainVars, calc, attempt, nego, plan, reaper, wsched>>

\* agent.py 2700, 2788: the loop condition fails
LoopFallsOut ==
    /\ sloop.pc = "top"
    /\ ~loop_continues(sloop.iteration, sloop.max_iterations)
    /\ sloop' = [sloop EXCEPT !.pc = "done", !.outcome = "fell_out"]
    /\ UNCHANGED <<mainVars, calc, attempt, nego, plan, reaper, wsched>>

\* agent.py 2709-2786: the critic's answer and what the loop makes of it:
\* return on success, on the cap, on a goal loop; else record the goal,
\* reset the tasks, plan again and count the iteration
LoopCritic(success, goal) ==
    /\ sloop.pc = "critic"
    /\ LET l == [sloop EXCEPT !.success = success, !.follow_up_goal = goal]
       IN  sloop' =
             IF success
             THEN [l EXCEPT !.pc = "done", !.outcome = "success"]
             ELSE IF cap_reached(l.iteration, l.max_iterations)
             THEN [l EXCEPT !.pc = "done", !.outcome = "incomplete"]
             ELSE IF goal_loop_detected(l.iteration, l.previous_goals, goal)
             THEN [l EXCEPT !.pc = "done", !.outcome = "loop_detected"]
             ELSE [l EXCEPT !.pc = "top",
                            !.previous_goals = Append(@, goal),
                            !.resets = @ + 1,
                            !.plans = @ + 1,
                            !.iteration = @ + 1]
    /\ UNCHANGED <<mainVars, calc, attempt, nego, plan, reaper, wsched>>

\* agent.py 2455-2457: a satisfied critic gives no follow-up goal
LoopNext ==
    \/ LoopSprint
    \/ LoopFallsOut
    \/ LoopCritic(TRUE, <<>>)
    \/ \E goal \in FollowUpGoals : LoopCritic(FALSE, goal)

LoopSpec == LoopInit /\ [][LoopNext]_vars

(***************************************************************************)
(* Board.add_task and Board.lock_scope (models.py 480-502) on a board of   *)
(* its own.  A task is its id, its status and whether its notes carry the  *)
(* " [SCOPE CHANGE]" mark.                                                 *)
(***************************************************************************)
MaxCalls == 4

NewTaskIds == {"n1", "n2", "n3"}

\* Task(id=...): models.py 179-200
NewTask(id) == [id |-> id, status |-> "backlog", scope_change |-> FALSE]

\* add_task that appends and records nothing
add_task_untracked(b, task, force) ==
    [b EXCEPT !.tasks = Append(@, task)]

\* Board.add_task, models.py 480-490
add_task(b, task, force) ==
    IF b.mode = "sprint" /\ b.scope_locked /\ ~force
    THEN [b EXCEPT !.scope_changes = Append(@, task.id),
                   !.tasks = Append(@, [task EXCEPT !.scope_change = TRUE])]
    ELSE [b EXCEPT !.tasks = Append(@, task)]

\* Board.lock_scope, models.py 492-502, on a list of tasks
lock_scope_board(b) ==
    IF b.mode # "sprint" THEN b
    ELSE [b EXCEPT !.scope_locked = TRUE,
                   !.tasks = [i \in 1..Len(b.tasks) |->
                                [b.tasks[i] EXCEPT !.status =
                                    IF @ = "backlog" THEN "planned" ELSE @]]]

PlanInit ==
    /\ plan \in { [pc |-> "open", mode |-> m, scope_locked |-> FALSE,
                   tasks |-> <<>>, scope_changes |-> <<>>, calls |-> <<>>] :
                  m \in Modes }
    /\ calc = NoCalc
    /\ attempt = NoAttempt
    /\ nego = NoNego
    /\ sloop = NoLoop
    /\ reaper = NoReaper
    /\ wsched = NoGuard
    /\ mode = "sprint"
    /\ deps = [t \in TaskIds |-> {}]
    /\ max_parallel = 1
    /\ scope_locked = FALSE
    /\ status = [t \in TaskIds |-> "backlog"]
    /\ started_at = [t \in TaskIds |-> FALSE]
    /\ complexity = [t \in TaskIds |-> "small"]
    /\ blocked_reason = [t \in TaskIds |-> 0]
    /\ reaper_kill_count = [t \in TaskIds |-> 0]
    /\ resurrection_history = [t \in TaskIds |-> <<>>]
    /\ board_lock = 0
    /\ pending_futures = [s \in Slots |-> NoFuture]
    /\ pc = "begin"
    /\ tasks_to_start = <<>>
    /\ iteration = 1
    /\ kills_left = 0
    /\ ten_killed = {}
    /\ task_wave_map = [t \in TaskIds |-> 0]
    /\ current_wave = 0
    /\ integration_notes = 0
    /\ unsaved = FALSE

\* a call board.add_task(Task(id), force); `calls` lists the calls made
AddTask(id, force) ==
    /\ plan.pc = "open"
    /\ Len(plan.calls) < MaxCalls
    /\ \A i \in 1..Len(plan.tasks) : plan.tasks[i].id # id
    /\ plan' = [add_task(plan, NewTask(id), force) EXCEPT
                   !.calls = Append(@, [op |-> "add_task", id |-> id,
                                        force |-> force])]
    /\ UNCHANGED <<mainVars, calc, attempt, nego, sloop, reaper, wsched>>

\* a call board.lock_scope()
LockScope ==
    /\ plan.pc = "open"
    /\ Len(plan.calls) < MaxCalls
    /\ plan' = [lock_scope_board(plan) EXCEPT
                   !.calls = Append(@, [op |-> "lock_scope", id |-> "none",
                                        force |-> FALSE])]
    /\ UNCHANGED <<mainVars, calc, attempt, nego, sloop, reaper, wsched>>

PlanNext ==
    \/ \E id \in NewTaskIds, force \in BOOLEAN : AddTask(id, force)
    \/ LockScope

PlanSpec == PlanInit /\ [][PlanNext]_vars

(***************************************************************************)
(* The wave bookkeeping of run_sprint (agent.py 2072-2082, 2296-2402) and  *)
(* its calls of run_wave_integration_guard, on plans of three tasks whose  *)
(* attempts all complete.                                                  *)
(***************************************************************************)
\* largest max_parallel of these runs
MaxGuardParallel == 2

\* the plans: a chain, two roots with a follower of the first, a join, and
\* three independent tasks
GuardDeps ==
    { [a |-> {}, b |-> {"a"}, c |-> {"b"}],
      [a |-> {}, b |-> {}, c |-> {"a"}],
      [a |-> {}, b |-> {}, c |-> {"a", "b"}],
      [a |-> {}, b |-> {}, c |-> {}] }

\* task.task_type of every task
GuardTaskTypes ==
    { [a |-> "implementation", b |-> "implementation", c |-> "implementation"],
      [a |-> "spike", b |-> "implementation", c |-> "implementation"] }

\* get_ready_tasks (agent.py 2035-2046) on this plan, in board order
guard_ready_tasks(st, d) ==
    SelectSeq(WaveTaskOrder,
              LAMBDA t : /\ st[t] = "backlog"
                         /\ \A dep \in d[t] : st[dep] = "completed")

\* agent.py 2072-2080: the wave number of every task
guard_wave_map(d) ==
    LET waves == calculate_waves(WaveTaskOrder, d, {})
    IN  [t \in WaveTaskIds |->
            IF \E i \in 1..Len(waves) : t \in Elems(waves[i])
            THEN CHOOSE i \in 1..Len(waves) : t \in Elems(waves[i])
            ELSE 0]

GuardInit ==
    /\ wsched \in
          { [pc |-> "top", d |-> d, task_type |-> ty, architecture_spec |-> arch,
             max_parallel |-> mp,
             status |-> [t \in WaveTaskIds |-> "backlog"],
             pending_futures |-> {}, task_wave_map |-> guard_wave_map(d),
             current_wave |-> 0, integration_notes |-> 0,
             guard_calls |-> <<>>] :
              d \in GuardDeps, ty \in GuardTaskTypes, arch \in BOOLEAN,
              mp \in 1..MaxGuardParallel }
    /\ calc = NoCalc
    /\ attempt = NoAttempt
    /\ nego = NoNego
    /\ sloop = NoLoop
    /\ plan = NoPlan
    /\ reaper = NoReaper
    /\ mode = "sprint"
    /\ deps = [t \in TaskIds |-> {}]
    /\ max_parallel = 1
    /\ scope_locked = FALSE
    /\ status = [t \in TaskIds |-> "backlog"]
    /\ started_at = [t \in TaskIds |-> FALSE]
    /\ complexity = [t \in TaskIds |-> "small"]
    /\ blocked_reason = [t \in TaskIds |-> 0]
    /\ reaper_kill_count = [t \in TaskIds |-> 0]
    /\ resurrection_history = [t \in TaskIds |-> <<>>]
    /\ board_lock = 0
    /\ pending_futures = [s \in Slots |-> NoFuture]
    /\ pc = "begin"
    /\ tasks_to_start = <<>>
    /\ iteration = 1
    /\ kills_left = 0
    /\ ten_killed = {}
    /\ task_wave_map = [t \in TaskIds |-> 0]
    /\ current_wave = 0
    /\ integration_notes = 0
    /\ unsaved = FALSE

\* agent.py 2300-2349: one pass of the scheduler loop up to the submits: the
\* ready tasks, the ones to start, the guard over the COMPLETED tasks of the
\* wave being left when a later wave is entered (its call is logged in
\* guard_calls, `issues` says whether it reported any), and the starts
GuardPass(issues) ==
    /\ wsched.pc = "top"
    /\ LET w == wsched
           ready == SelectSeq(guard_ready_tasks(w.status, w.d),
                              LAMBDA t : t \notin w.pending_futures)
           slots == w.max_parallel - Cardinality(w.pending_futures)
           to_start == Take(ready, slots)
           nw == IF to_start = <<>> THEN w.current_wave
                 ELSE IF w.task_wave_map[Head(to_start)] # 0
                      THEN w.task_wave_map[Head(to_start)]
                      ELSE w.current_wave + 1
           prev_wave_tasks == {t \in WaveTaskIds :
                                  /\ w.task_wave_map[t] = w.current_wave
                                  /\ w.status[t] = "completed"}
           has_impl == \E t \in prev_wave_tasks : w.task_type[t] = "implementation"
           guarded == /\ nw > w.current_wave
                      /\ w.current_wave > 0
                      /\ w.architecture_spec
                      /\ has_impl
       IN  /\ issues => guarded
           /\ wsched' =
                [w EXCEPT !.pc = "wait",
                          !.guard_calls =
                              IF guarded
                              THEN Append(@, [wave |-> w.current_wave,
                                              tasks |-> prev_wave_tasks,
                                              status |-> w.status])
                              ELSE @,
                          !.integration_notes = IF issues THEN @ + 1 ELSE @,
                          !.current_wave = nw,
                          !.status = [t \in WaveTaskIds |->
                                         IF t \in Elems(to_start)
                                         THEN "in_progress" ELSE w.status[t]],
                          !.pending_futures = @ \cup Elems(to_start)]
    /\ UNCHANGED <<mainVars, calc, attempt, nego, sloop, plan, reaper>>

\* agent.py 2351-2402: with nothing pending the loop ends when no task
\* remains and goes round otherwise; else it waits at most 0.5 s and drops
\* the futures that are done
GuardWait ==
    /\ wsched.pc = "wait"
    /\ LET w == wsched
           remaining == {t \in WaveTaskIds : w.status[t] # "completed"}
           done == {t \in w.pending_futures : w.status[t] = "completed"}
       IN  wsched' =
             IF w.pending_futures = {}
             THEN [w EXCEPT !.pc = IF remaining = {} THEN "returned" ELSE "top"]
             ELSE [w EXCEPT !.pc = "top", !.pending_futures = @ \ done]
    /\ UNCHANGED <<mainVars, calc, attempt, nego, sloop, plan, reaper>>

\* agent.py 2128-2134: a worker's attempt returns and its task is completed
GuardComplete(t) ==
    /\ wsched.pc \in {"top", "wait"}
    /\ t \in wsched.pending_futures
    /\ wsched.status[t] = "in_progress"
    /\ wsched' = [wsched EXCEPT !.status[t] = "completed"]
    /\ UNCHANGED <<mainVars, calc, attempt, nego, sloop, plan, reaper>>

GuardNext ==
    \/ \E issues \in BOOLEAN : GuardPass(issues)
    \/ GuardWait
    \/ \E t \in WaveTaskIds : GuardComplete(t)

GuardSpec == GuardInit /\ [][GuardNext]_vars

(***************************************************************************)
(* `waverunner run` (cli.py 254-268): run_sprint on a plan loaded from the *)
(* board file, as an earlier run left it; no critic follows.               *)
(***************************************************************************)
\* what the file may hold for a task: waiting (PLANNED since the scope was
\* locked), IN_PROGRESS because the run was interrupted during its attempt,
\* or COMPLETED; a task was started only with its dependencies completed
LoadedStatuses(d) ==
    {st \in [TaskIds -> {"planned", "in_progress", "completed"}] :
        \A t \in TaskIds :
            st[t] # "planned" => \A dep \in d[t] : st[dep] = "completed"}

\* Board.load (models.py 591-596) and the call of run_sprint (cli.py 268)
ResumeInit ==
    /\ mode = "sprint"
    /\ deps \in {g \in DepGraphs : IsDAG(g)}
    /\ max_parallel \in 1..MaxParallelBound
    /\ scope_locked = TRUE
    /\ status \in LoadedStatuses(deps)
    /\ started_at = [t \in TaskIds |-> status[t] # "planned"]
    /\ complexity = [t \in TaskIds |-> "small"]
    /\ blocked_reason = [t \in TaskIds |-> 0]
    /\ reaper_kill_count = [t \in TaskIds |-> 0]
    /\ resurrection_history = [t \in TaskIds |-> <<>>]
    /\ board_lock = 0
    /\ pending_futures = [s \in Slots |-> NoFuture]
    /\ pc = "begin"
    /\ tasks_to_start = <<>>
    /\ iteration = 1
    /\ kills_left = KillBudget
    /\ ten_killed = {}
    /\ task_wave_map = [t \in TaskIds |-> 0]
    /\ current_wave = 0
    /\ integration_notes = 0
    /\ unsaved = FALSE
    /\ calc = NoCalc
    /\ attempt = NoAttempt
    /\ nego = NoNego
    /\ sloop = NoLoop
    /\ plan = NoPlan
    /\ reaper = NoReaper
    /\ wsched = NoGuard

\* the scheduler thread of run_sprint
ResumeThread ==
    \/ SchedBegin
    \/ SchedCollect
    \/ \E issues \in BOOLEAN : SchedWave(issues)
    \/ SchedStart
    \/ SchedExitCheck
    \/ SchedWait

ResumeNext ==
    \/ ResumeThread
    \/ \E s \in Slots : Worker(s)

\* the scheduler thread and every worker thread keep running
ResumeSpec ==
    /\ ResumeInit
    /\ [][ResumeNext]_vars
    /\ SF_vars(ResumeThread)
    /\ \A s \in Slots : SF_vars(Worker(s))

(***************************************************************************)
(* Properties                                                              *)
(***************************************************************************)
AllCompleted == \A t \in TaskIds : status[t] = "completed"

IsPrefix(h1, h2) == Len(h1) <= Len(h2) /\ SubSeq(h2, 1, Len(h1)) = h1

\* C1: every IN_PROGRESS task has all its dependencies naming COMPLETED tasks.
C1_Admission ==
    \A t \in TaskIds :
        status[t] = "in_progress" =>
            \A d \in deps[t] : d \in TaskIds /\ status[d] = "completed"

\* a task with a dependency is running
C1_Witness ==
    \E t \in TaskIds : status[t] = "in_progress" /\ deps[t] # {}

\* C2: no two futures that are still running hold the same task id; in particular
\* a task reset to BACKLOG is not resubmitted while its worker is re-estimating.
C2_AtMostOneWorker ==
    \A s1, s2 \in Slots :
        (/\ s1 # s2
         /\ Fut(s1) # NoFuture
         /\ Fut(s2) # NoFuture
         /\ Fut(s1).task = Fut(s2).task)
        => (Fut(s1).pc = "done" \/ Fut(s2).pc = "done")

\* the scheduler has collected with a slot free while a task that is back in
\* BACKLOG is still in its worker's re-estimation, and did not pick it
C2_Witness ==
    \E s \in Slots :
        /\ Fut(s).pc = "reest"
        /\ status[Fut(s).task] = "backlog"
        /\ pc = "start"
        /\ tasks_to_start = <<>>
        /\ NumPending(pending_futures) < max_parallel

\* C3: on a DAG, every run_sprint that is entered returns.
C3_RunSprintReturns == IsDAG(deps) => ((pc = "begin") ~> (pc = "returned"))

\* C4: on a DAG, unless an attempt fails otherwise or a kill count reaches 10,
\* run_sprint returns with every task COMPLETED.
C4_AllComplete ==
    IsDAG(deps) =>
        <>(\/ pc = "returned" /\ AllCompleted
           \/ \E s \in Slots : Fut(s).pc = "raised"
           \/ \E t \in TaskIds : reaper_kill_count[t] >= MaxKills)

\* run_sprint returned with everything COMPLETED after some task was killed and retried
C4_Witness ==
    /\ pc = "returned"
    /\ AllCompleted
    /\ \E t \in TaskIds : reaper_kill_count[t] > 0 /\ reaper_kill_count[t] < MaxKills

\* C5: when an attempt ends with an error that is not a Reaper kill, the handler
\* leaves the task BLOCKED (not IN_PROGRESS).
C5_FailedOtherBlocks ==
    [][\A s \in Slots :
          (Fut(s).pc = "raised" /\ pending_futures'[s].pc # "raised")
          => status'[Fut(s).task] = "blocked"]_vars

\* C6: a task becomes COMPLETED only from an attempt whose subprocess exited with 0.
C6_CompletedOnlyOnSuccess ==
    [][\A s \in Slots :
          (/\ Fut(s).pc = "returned"
           /\ status[Fut(s).task] # "completed"
           /\ status'[Fut(s).task] = "completed")
          => Fut(s).rc = 0]_vars

\* C7: whenever the lock is free the kill count equals the length of the history;
\* the kill count never decreases and the history only grows at its end.
C7_KillCountHistory ==
    /\ [](board_lock = 0 =>
            \A t \in TaskIds : reaper_kill_count[t] = Len(resurrection_history[t]))
    /\ [][\A t \in TaskIds :
            /\ reaper_kill_count'[t] >= reaper_kill_count[t]
            /\ IsPrefix(resurrection_history[t], resurrection_history'[t])]_vars

\* the lock is free and some task has been killed at least twice
C7_Witness ==
    /\ board_lock = 0
    /\ \E t \in TaskIds : reaper_kill_count[t] >= 2

\* C8: a task whose kill count reached 10 in this run_sprint is BLOCKED with a
\* reason naming 10 and stays so until the run is over, and the run returns.
C8_TenKills ==
    /\ [](\A t \in ten_killed : status[t] = "blocked" /\ blocked_reason[t] = 10)
    /\ ((ten_killed # {}) ~> (pc = "returned"))

\* C9: a task whose kill count has reached 10 and that is no longer running is
\* never started again, in this run_sprint or a later one.
C9_NoEleventhAttempt ==
    [][\A t \in TaskIds :
          (reaper_kill_count[t] >= MaxKills /\ status[t] # "in_progress")
          => status'[t] # "in_progress"]_vars

\* the kill reason mentions silence, hang, unresponsive or no output
MentionsSilenceOrHang(r) ==
    \E w \in {"silence", "hang", "unresponsive", "no output"} : w \in ReasonWords(r)

MentionsSilenceOrHung(r) ==
    \E w \in {"silence", "hung", "no output", "unresponsive"} : w \in ErrorMsgWords(r)

SizeNames == {"trivial", "small", "medium", "large"}

\* C11: when a re-estimation ends, the task's complexity has changed iff the
\* verdict was parsed, has consensus and names a size in {trivial, small,
\* medium, large} other than the current one, and then it is that size; the
\* task is in BACKLOG either way; nothing else ever changes a complexity.
C11_ResizeOnConsensus ==
    /\ [][\A s \in Slots :
            (Fut(s).pc = "resize" /\ pending_futures'[s].pc # "resize")
            => LET t == Fut(s).task
                   v == Fut(s).verdict
                   accepted == /\ v.parsed
                               /\ v.consensus
                               /\ v.new_complexity \in SizeNames
                               /\ v.new_complexity # complexity[t]
               IN  /\ (complexity'[t] # complexity[t]) <=> accepted
                   /\ accepted => complexity'[t] = v.new_complexity
                   /\ status'[t] = "backlog"]_vars
    /\ [][\A t \in TaskIds :
            complexity'[t] # complexity[t]
            => \E s \in Slots : Fut(s).pc = "resize" /\ Fut(s).task = t]_vars

\* a deliberation came back without consensus on a size other than the current one
C11_Witness ==
    \E s \in Slots :
        /\ Fut(s).pc = "resize"
        /\ Fut(s).verdict.parsed
        /\ ~Fut(s).verdict.consensus
        /\ Fut(s).verdict.new_complexity # complexity[Fut(s).task]

\* positions of a worker in which it holds the lock
LockedPositions == {"corpse", "negotiate"}

\* C12: a worker inside its subprocess run or its re-estimation deliberation
\* does not hold the lock; while one worker deliberates and no other worker is
\* in a critical section, a finished attempt can commit COMPLETED and the
\* scheduler can collect the ready tasks.
C12_NoLockWhileDeliberating ==
    /\ \A s \in Slots : Fut(s).pc \in {"exec", "reest"} => board_lock # s
    /\ \A s \in Slots :
          (/\ Fut(s).pc = "reest"
           /\ \A x \in Slots : Fut(x).pc \notin LockedPositions)
          => /\ \A x \in Slots : Fut(x).pc = "returned" => ENABLED Complete(x)
             /\ pc = "top" => ENABLED SchedCollect

\* one worker is deliberating while another is about to commit its COMPLETED outcome
C12_Witness ==
    \E s, x \in Slots :
        /\ Fut(s).pc = "reest"
        /\ Fut(x).pc = "returned"

\* C13: no worker is inside negotiate_resurrection (the agent proposal and the
\* guardian verdict, both LLM calls) while it holds the lock.
C13_NoLockWhileNegotiating ==
    \A s \in Slots : Fut(s).pc = "negotiate" => board_lock # s

InProgress == {t \in TaskIds : status[t] = "in_progress"}

\* C14: in Kanban mode the number of IN_PROGRESS tasks never exceeds wip_limit,
\* whatever value the configuration holds.
C14_WipLimit ==
    \A w \in WipLimits :
        mode = "kanban" => Cardinality(InProgress) <= w

\* C15: whatever the priorities, when the scheduler picks the tasks to start,
\* no ready task of strictly higher priority than a picked one is left waiting.
C15_PriorityOrder ==
    [][(pc = "top" /\ pc' \in {"start", "wave"})
       => \A pr \in PriorityAssignments :
            LET ready == filter_running(get_ready_tasks(status),
                                        running_ids(pending_futures))
            IN  \A t \in Elems(tasks_to_start') :
                  \A u \in Elems(ready) \ Elems(tasks_to_start') :
                      PriorityRank(pr[u]) >= PriorityRank(pr[t])]_vars

\* the tasks calculate_waves places in some wave: neither on nor behind a
\* cycle or a dangling dependency
Reachable == Placeable(deps, {})

\* C16: a task on or behind a cycle or a dangling dependency is never
\* IN_PROGRESS, and the first run_sprint over the plan returns all the same
\* (unless an attempt fails otherwise or a kill count reaches 10, the cases
\* of C3 and C8).
C16_UnreachableLeftAlone ==
    /\ [](\A t \in TaskIds \ Reachable : status[t] # "in_progress")
    /\ (~IsDAG(deps)
        => ((pc = "begin" /\ iteration = 1)
              ~> (\/ pc = "returned"
                  \/ \E s \in Slots : Fut(s).pc = "raised"
                  \/ \E t \in TaskIds : reaper_kill_count[t] >= MaxKills)))

\* C19: when run_sprint has returned no future is pending, no task is
\* IN_PROGRESS and no task is eligible.
C19_NothingLeftOnReturn ==
    pc = "returned"
    => /\ NumPending(pending_futures) = 0
       /\ InProgress = {}
       /\ \A t \in TaskIds :
             ~(status[t] \in {"planned", "ready", "backlog"}
               /\ \A d \in deps[t] : d \in TaskIds /\ status[d] = "completed")

\* run_sprint returned leaving a task that is not finished and not eligible
C19_Witness ==
    /\ pc = "returned"
    /\ \E t \in TaskIds : status[t] \in {"planned", "blocked"}

\* the dependencies of a listed task that already_completed does not satisfy
Unmet(c, t) == IF t \in Elems(c.tasks) THEN c.deps[t] \ c.completed ELSE {}

RECURSIVE UnmetClosure(_, _)
UnmetClosure(c, S) ==
    LET n == S \cup UNION {Unmet(c, u) : u \in S}
    IN  IF n = S THEN S ELSE UnmetClosure(c, n)

\* the ids t waits for, directly or through other tasks
WaitsFor(c, t) == UnmetClosure(c, Unmet(c, t))

\* t is neither on nor behind a cycle or a dangling dependency
WaveReachable(c, t) ==
    \A u \in {t} \cup WaitsFor(c, t) :
        u \in Elems(c.tasks) /\ u \notin WaitsFor(c, u)

\* the ids in the waves before wave i
EarlierIds(w, i) == UNION {Elems(w[j]) : j \in 1..(i - 1)}

PlacedIds(w) == EarlierIds(w, Len(w) + 1)

\* C17: wave i holds exactly the tasks not in earlier waves whose dependencies
\* are all in already_completed or in earlier waves; no wave is empty, no task
\* appears twice, and a task is in some wave iff it is reachable.
C17_WavesExact ==
    calc.pc = "returned"
    => LET w == calc.waves
       IN  /\ \A i \in 1..Len(w) :
                 /\ Elems(w[i]) =
                       {t \in Elems(calc.tasks) \ EarlierIds(w, i) :
                          calc.deps[t] \subseteq calc.completed \cup EarlierIds(w, i)}
                 /\ w[i] # <<>>
                 /\ Cardinality(Elems(w[i])) = Len(w[i])
                 /\ Elems(w[i]) \cap EarlierIds(w, i) = {}
           /\ \A t \in Elems(calc.tasks) :
                 t \in PlacedIds(w) <=> WaveReachable(calc, t)

\* a call returned at least two waves and left a task out
C17_Witness ==
    /\ calc.pc = "returned"
    /\ Len(calc.waves) >= 2
    /\ Elems(calc.tasks) \ PlacedIds(calc.waves) # {}

\* the sets of tasks a call may find completed later: placed tasks, each
\* with its dependencies in already_completed or in the set
CompletionSets(c) ==
    {C \in SUBSET PlacedIds(c.waves) :
        \A t \in C : c.deps[t] \subseteq c.completed \cup C}

\* calculate_waves over what is left once the tasks of C have completed
WavesAfter(c, C) ==
    calculate_waves(SelectSeq(c.tasks, LAMBDA t : t \notin C), c.deps,
                    c.completed \cup C)

WaveSets(w) == {Elems(w[i]) : i \in 1..Len(w)}

WaveIndex(w, t) == CHOOSE i \in 1..Len(w) : t \in Elems(w[i])

\* C18 as stated: after any completion set C the call yields, as sets, the
\* original waves with the tasks of C removed.
C18_SameRemainingWaves ==
    calc.pc = "returned"
    => \A C \in CompletionSets(calc) :
          WaveSets(WavesAfter(calc, C))
             = {Elems(calc.waves[i]) \ C : i \in 1..Len(calc.waves)} \ {{}}

\* C18 amended: after any completion set C the call places exactly the
\* original tasks without C, none in a later wave than before; when C is the
\* first k waves, the call yields exactly the waves after them.
C18_SameRemainingTasks ==
    calc.pc = "returned"
    => LET w == calc.waves
       IN  /\ \A C \in CompletionSets(calc) :
                 LET v == WavesAfter(calc, C)
                 IN  /\ PlacedIds(v) = PlacedIds(w) \ C
                     /\ \A t \in PlacedIds(v) : WaveIndex(v, t) <= WaveIndex(w, t)
           /\ \A k \in 0..Len(w) :
                 WavesAfter(calc, EarlierIds(w, k + 1)) = SubSeq(w, k + 1, Len(w))

\* a call returned two waves, and a task of the first wave can complete alone
\* while another task of that wave has not
C18_Witness ==
    /\ calc.pc = "returned"
    /\ Len(calc.waves) >= 2
    /\ \E C \in CompletionSets(calc) :
          /\ C # {}
          /\ C \subseteq Elems(calc.waves[1])
          /\ C # Elems(calc.waves[1])

\* C20: an attempt whose subprocess prints a heartbeat line every 50 s and
\* nothing else for 20 minutes and then exits with code 0 is never killed by
\* the Reaper, and its task ends COMPLETED.
C20_HeartbeatKeepsAlive ==
    attempt.pc # "none" /\ attempt.script.kind = "heartbeat"
    => /\ attempt.pc # "killed"
       /\ attempt.reason \notin {"loop", "bad_state", "no_heartbeat",
                                  "old_heartbeat", "stale_heartbeat", "llm"}
       /\ attempt.pc = "handled" => attempt.task_status = "completed"

\* the heartbeat attempt ran its 20 minutes under the Reaper's checks and
\* its task was completed
C20_Witness ==
    /\ attempt.pc = "handled"
    /\ attempt.script.kind = "heartbeat"
    /\ attempt.timeout = 0
    /\ attempt.now = 1200
    /\ Len(attempt.output_lines) = 24
    /\ attempt.last_reaper_check >= 1170
    /\ attempt.task_status = "completed"

\* the guardian's answer of round k, and the agent's
GuardianAnswer(k) == nego.calls[2 * k]

AgentAnswer(k) == nego.calls[2 * k - 1]

StartsWithApproved(reaper_response) ==
    reaper_response # <<>> /\ Upper(reaper_response[1]) = "APPROVED"

\* C22: an answer of the guardian counts as an approval only if it starts
\* with APPROVED: whenever negotiate_resurrection returns an adjustment, the
\* last answer of the guardian starts with APPROVED.
C22_ApprovalOnlyByPrefix ==
    nego.pc = "returned" => StartsWithApproved(nego.calls[Len(nego.calls)])

\* C24: when the critic rejects the sprint, run_sprint_loop sets every task
\* that is neither COMPLETED nor SKIPPED to BACKLOG and clears its
\* started_at before it plans again, and leaves COMPLETED and SKIPPED tasks
\* as they are.
C24_ResetClearsStartedAt ==
    [][(pc = "returned" /\ pc' = "begin") =>
          \A t \in TaskIds :
             IF status[t] \in {"completed", "skipped"}
             THEN status'[t] = status[t] /\ started_at'[t] = started_at[t]
             ELSE status'[t] = "backlog" /\ ~started_at'[t]]_vars

\* two goals the critic gave, one of which contains the other when letter
\* case is ignored
SubstringSimilar(g, h) ==
    /\ g # <<>>
    /\ h # <<>>
    /\ \/ \E i \in 0..(Len(h) - Len(g)) : SubSeq(lower(h), i + 1, i + Len(g)) = lower(g)
       \/ \E i \in 0..(Len(g) - Len(h)) : SubSeq(lower(g), i + 1, i + Len(h)) = lower(h)

\* the new follow-up goal is similar to both of the two goals before it
SimilarToBothPrevious(previous_goals, follow_up_goal) ==
    /\ Len(previous_goals) >= 2
    /\ SubstringSimilar(previous_goals[Len(previous_goals)], follow_up_goal)
    /\ SubstringSimilar(previous_goals[Len(previous_goals) - 1], follow_up_goal)

\* C23 as stated: run_sprint_loop ends with the loop-detected outcome
\* exactly when the critic reports failure at an iteration >= 3 with a
\* follow-up goal similar to both of the two previous follow-up goals.
C23_LoopDetectedExactly ==
    [][sloop.pc = "critic" =>
          (sloop'.outcome = "loop_detected" <=>
              /\ ~sloop'.success
              /\ sloop.iteration >= 3
              /\ SimilarToBothPrevious(sloop.previous_goals,
                                       sloop'.follow_up_goal))]_vars

\* C23 amended: the same, when the iteration is not the last one the cap
\* allows; at the cap the loop ends as incomplete, similar goals or not.
C23_LoopDetectedBelowCap ==
    [][sloop.pc = "critic" =>
          /\ (sloop'.outcome = "loop_detected" <=>
                /\ ~sloop'.success
                /\ sloop.iteration >= 3
                /\ ~cap_reached(sloop.iteration, sloop.max_iterations)
                /\ SimilarToBothPrevious(sloop.previous_goals,
                                         sloop'.follow_up_goal))
          /\ (~sloop'.success /\ cap_reached(sloop.iteration, sloop.max_iterations)
                => sloop'.outcome = "incomplete")]_vars

\* the third critic in a row names a similar goal and the loop gives up
C23_Witness ==
    /\ sloop.pc = "done"
    /\ sloop.outcome = "loop_detected"
    /\ sloop.iteration = 3
    /\ sloop.follow_up_goal # sloop.previous_goals[2]
    /\ sloop.previous_goals[1] # sloop.previous_goals[2]

\* C25: run_sprint_loop returns as soon as the critic reports success,
\* without a reset or a new plan; with a cap of N iterations it calls
\* run_sprint at most N times; with no cap it returns only on success or on
\* a detected goal loop.
C25_LoopExits ==
    /\ [](sloop.pc # "none" =>
            /\ ~sloop.max_iterations.is_none =>
                  sloop.sprints <= sloop.max_iterations.value
            /\ (sloop.max_iterations.is_none /\ sloop.pc = "done") =>
                  sloop.outcome \in {"success", "loop_detected"}
            /\ sloop.resets = sloop.plans
            /\ sloop.outcome = "success" => sloop.sprints = sloop.resets + 1)
    /\ [][(sloop.pc = "critic" /\ sloop'.success) =>
             /\ sloop'.pc = "done"
             /\ sloop'.outcome = "success"
             /\ sloop'.resets = sloop.resets
             /\ sloop'.plans = sloop.plans
             /\ sloop'.sprints = sloop.sprints]_vars

\* an uncapped loop that succeeds at its fourth sprint
C25_Witness ==
    /\ sloop.pc = "done"
    /\ sloop.max_iterations.is_none
    /\ sloop.outcome = "success"
    /\ sloop.sprints = 4
    /\ sloop.resets = 3

\* the step is a call of add_task on a sprint board whose scope is locked
LockedAdd(force) ==
    /\ plan.pc = "open" /\ plan.mode = "sprint" /\ plan.scope_locked
    /\ Len(plan'.calls) = Len(plan.calls) + 1
    /\ plan'.calls[Len(plan'.calls)].op = "add_task"
    /\ plan'.calls[Len(plan'.calls)].force = force

\* the ids of the task list
TaskListIds(b) == [i \in 1..Len(b.tasks) |-> b.tasks[i].id]

C26_SavedWhenLockFree == board_lock = 0 => ~unsaved

\* with the lock free, one task is COMPLETED and the other was killed ten
\* times and BLOCKED
C26_Witness ==
    /\ board_lock = 0
    /\ ~unsaved
    /\ \E t, u \in TaskIds :
          /\ status[t] = "completed"
          /\ status[u] = "blocked"
          /\ reaper_kill_count[u] >= MaxKills

\* the step writes a field of a task or of the board
WritesBoard ==
    \/ boardVars' # boardVars
    \/ scope_locked' # scope_locked
    \/ integration_notes' # integration_notes

C29_KilledTaskRetried ==
    /\ [](\A s \in Slots :
            Fut(s).pc \in {"reest", "resize"}
            => /\ status[Fut(s).task] = "backlog"
               /\ ~started_at[Fut(s).task]
               /\ Fut(s).task \in Elems(get_ready_tasks(status)))
    /\ [][\A s \in Slots :
             LET t == Fut(s).task
             IN  /\ (Fut(s).pc = "corpse" /\ Fut(s).kc < MaxKills
                        /\ pending_futures'[s] # pending_futures[s])
                    => pending_futures'[s].pc = "negotiate"
                 /\ (Fut(s).pc \in {"negotiate", "resize"}
                        /\ pending_futures'[s] # pending_futures[s])
                    => /\ reaper_kill_count'[t] < MaxKills
                       /\ status'[t] = "backlog"
                       /\ ~started_at'[t]
                       /\ t \in Elems(get_ready_tasks(status'))]_vars

\* a task killed for the second time is back in BACKLOG while its worker
\* has a verdict that resizes it
C29_Witness ==
    \E s \in Slots :
        /\ Fut(s).pc = "resize"
        /\ Fut(s).kc = 2
        /\ run_reestimation_discussion(Fut(s).verdict) \notin
              {NoComplexity, complexity[Fut(s).task]}
        /\ status[Fut(s).task] = "backlog"

\* some single line occurs at least 30 times among the last min(|out|, 50)
\* lines of an output of at least 30 lines
RepeatsInTail(out) ==
    /\ Len(out) >= 30
    /\ LET n == IF Len(out) < 50 THEN Len(out) ELSE 50
           tail == (Len(out) - n + 1)..Len(out)
       IN  \E i \in tail : Cardinality({j \in tail : out[j] = out[i]}) >= 30

\* silences and elapsed times a check may be made with
SilenceCases == {0, 30, 900, 901, 1800}

ElapsedCases == {60, 1800}

\* C30: on the output an attempt has produced, reaper_monitor_task returns
\* the infinite-loop KILL exactly when at least 30 lines exist and one line
\* occurs at least 30 times among the last min(|out|, 50), whatever the
\* silence, the probe and the guardian's answer, and without asking the
\* guardian; and a Reaper check of the read loop kills the attempt for an
\* infinite loop exactly in that case.
C30_InfiniteLoopKill ==
    /\ [](attempt.pc # "none" =>
            \A s \in SilenceCases, e \in ElapsedCases \cup {attempt.now},
               p \in {ProbeUnavailable,
                       [cpu |-> 80, state |-> "running", conns |-> 1]},
               p2 \in {ProbeUnavailable}, llm \in LlmAnswers :
                /\ reaper_monitor_task(attempt.output_lines, s, e, TRUE, p, p2, llm)
                      = Kill("loop")
                   <=> RepeatsInTail(attempt.output_lines)
                /\ RepeatsInTail(attempt.output_lines)
                   => ~reaper_asks_llm(attempt.output_lines, s, e, TRUE, p, p2))
    /\ [][ReaperCheckDue /\ ~(attempt.timeout # 0 /\ attempt.now > attempt.timeout)
           => ((attempt'.pc = "killed" /\ attempt'.reason = "loop")
               <=> RepeatsInTail(attempt.output_lines))]_vars

\* an attempt that printed the same line 30 times and then fell silent was
\* killed for an infinite loop at a check that found it 30 s silent
C30_Witness ==
    /\ attempt.pc = "killed"
    /\ attempt.reason = "loop"
    /\ attempt.script.kind = "repeating"
    /\ Len(attempt.output_lines) = 30
    /\ attempt.now - attempt.last_output_time = 30

\* the call of reaper_monitor_task has returned
ReaperReturned == reaper.pc = "returned"

\* the warm-up returns of the call do not apply (agent.py 179-183)
PastWarmup ==
    IF reaper.recent_output = <<>> THEN reaper.elapsed_seconds >= 1800
    ELSE ~(reaper.elapsed_seconds < 60 /\ Len(reaper.recent_output) < 3)

\* the first reading of the process shows an open connection or CPU above 50%
ProbeExempts == reaper.probe.conns > 0 \/ reaper.probe.cpu > 50

\* C31: with silence above 900 s and no loop detected, a process with an open
\* network connection or CPU above 50% gets CONTINUE, whatever its state and
\* its heartbeat; the verdict KILL for a zombie or disk-sleep state is given
\* only with a pid, silence above 900 s and neither exemption, and it is
\* given then once the warm-up is over.
C31_ExemptionsBeforeBadState ==
    ReaperReturned =>
      /\ (reaper.silence_seconds > 900 /\ ~RepeatsInTail(reaper.recent_output)
          /\ ProbeExempts)
            => reaper.verdict = Continue
      /\ reaper.verdict = Kill("bad_state")
            => /\ reaper.has_pid
               /\ reaper.silence_seconds > 900
               /\ reaper.probe.state \in {"zombie", "disk-sleep"}
               /\ ~ProbeExempts
      /\ (reaper.has_pid /\ reaper.silence_seconds > 900 /\ PastWarmup
          /\ ~RepeatsInTail(reaper.recent_output) /\ ~ProbeExempts
          /\ reaper.probe.state \in {"zombie", "disk-sleep"})
            => reaper.verdict = Kill("bad_state")

\* a zombie without a heartbeat, 30 minutes silent, is left alone because it
\* holds an open connection
C31_Witness ==
    /\ ReaperReturned
    /\ reaper.silence_seconds = 1800
    /\ reaper.recent_output = <<"working">>
    /\ reaper.probe.state = "zombie"
    /\ reaper.probe.conns = 1
    /\ reaper.probe.cpu = 0
    /\ reaper.verdict = Continue

\* a rule of the process status check returns: an exemption or a bad state
ProbeRuleFires ==
    /\ reaper.has_pid
    /\ reaper.silence_seconds > 900
    /\ ProbeExempts \/ reaper.probe.state \in {"zombie", "disk-sleep"}

\* the last line of the output is a heartbeat
LastLineIsHeartbeat ==
    /\ reaper.recent_output # <<>>
    /\ reaper.recent_output[Len(reaper.recent_output)] = "[WAVERUNNER_HEARTBEAT]"

\* C32: with output, silence above 900 s and neither the loop rule nor a rule
\* of the process status check firing, the verdict is CONTINUE exactly when
\* the last line is a heartbeat and the silence is below 1800 s, and KILL in
\* every other case: no heartbeat, a heartbeat that is not the last line, or
\* a last-line heartbeat with silence of 1800 s or more.
C32_HeartbeatDecides ==
    (/\ ReaperReturned
     /\ reaper.recent_output # <<>>
     /\ reaper.silence_seconds > 900
     /\ ~RepeatsInTail(reaper.recent_output)
     /\ ~ProbeRuleFires)
    => /\ reaper.verdict = Continue
            <=> (LastLineIsHeartbeat /\ reaper.silence_seconds < 1800)
       /\ reaper.verdict # Continue
            => /\ reaper.verdict.action = "KILL"
               /\ reaper.verdict.reason
                    = IF \A i \in 1..Len(reaper.recent_output) :
                            reaper.recent_output[i] # "[WAVERUNNER_HEARTBEAT]"
                      THEN "no_heartbeat"
                      ELSE IF ~LastLineIsHeartbeat THEN "old_heartbeat"
                      ELSE "stale_heartbeat"

\* a heartbeat followed by another line, then 901 s of silence: killed
C32_Witness ==
    /\ ReaperReturned
    /\ reaper.recent_output = <<"[WAVERUNNER_HEARTBEAT]", "working">>
    /\ reaper.silence_seconds = 901
    /\ reaper.has_pid
    /\ reaper.probe = [cpu |-> 0, state |-> "sleeping", conns |-> 0]
    /\ reaper.verdict = Kill("old_heartbeat")

\* C33: the call goes through the LLM only with silence above 900 s and a
\* reading of the process that shows no CPU use and no open connection;
\* with silence of 900 s or less the verdict is reached without an LLM call.
C33_LlmOnlyWhenAmbiguous ==
    (ReaperReturned /\ reaper.asked)
    => /\ reaper.silence_seconds > 900
       /\ reaper.probe2.cpu = 0
       /\ reaper.probe2.conns = 0

\* nothing is known of the process: there is no pid, or get_process_status
\* failed at both readings and gave (0.0, "unknown", 0)
ProbeIsUnavailable ==
    \/ ~reaper.has_pid
    \/ reaper.probe.state = "unknown" /\ reaper.probe2.state = "unknown"

\* C34: when the process probe is unavailable the rules that refer to cpu or
\* netConns are skipped, the LLM fallback among them: the LLM is not asked.
C34_UnavailableProbeSkipsLlm ==
    (ReaperReturned /\ ProbeIsUnavailable) => ~reaper.asked

\* C34, amended: when the process probe is unavailable no rule of the process
\* status check returns, and the LLM fallback is evaluated with cpu = 0 and
\* no connection: the LLM is asked exactly when the warm-up is over, no loop
\* is detected, the silence is at least 900 s and the heartbeat rule did not
\* return, and its answer is the verdict; a failed probe gives the verdict
\* of a call without pid.
C34_UnavailableProbeDefaults ==
    (ReaperReturned /\ ProbeIsUnavailable)
    => /\ reaper.verdict.reason # "bad_state"
       /\ reaper.asked
            <=> /\ PastWarmup
                /\ ~RepeatsInTail(reaper.recent_output)
                /\ reaper.silence_seconds >= 900
                /\ ~(reaper.recent_output # <<>> /\ reaper.silence_seconds > 900)
       /\ reaper.asked
            => reaper.verdict = IF reaper.llm = "KILL" THEN Kill("llm")
                                ELSE Continue
       /\ reaper.verdict
            = reaper_monitor_task(reaper.recent_output, reaper.silence_seconds,
                                  reaper.elapsed_seconds, FALSE,
                                  ProbeUnavailable, ProbeUnavailable, reaper.llm)

\* a process with a pid whose probe failed, 40 minutes without any output:
\* the guardian was asked and its KILL was carried out
C34_Witness ==
    /\ ReaperReturned
    /\ reaper.has_pid
    /\ reaper.probe = ProbeUnavailable
    /\ reaper.probe2 = ProbeUnavailable
    /\ reaper.recent_output = <<>>
    /\ reaper.silence_seconds = 2400
    /\ reaper.asked
    /\ reaper.verdict = Kill("llm")

\* the tasks the waves put in wave n
TasksOfWave(n) == {t \in WaveTaskIds : wsched.task_wave_map[t] = n}

\* the waves of the plan that hold an Implementation task
WavesToCheck ==
    {n \in 1..3 : \E t \in TasksOfWave(n) : wsched.task_type[t] = "implementation"}

\* C35: with an architecture contract, every call of the wave integration
\* check for a wave is made when all tasks of that wave are COMPLETED and
\* is given all Implementation tasks of the wave, and when run_sprint has
\* returned the check has been made for every such wave, the last included.
C35_EveryWaveChecked ==
    wsched.pc # "none" =>
      /\ \A i \in 1..Len(wsched.guard_calls) :
            LET call == wsched.guard_calls[i]
            IN  /\ \A t \in TasksOfWave(call.wave) : call.status[t] = "completed"
                /\ {t \in TasksOfWave(call.wave) :
                       wsched.task_type[t] = "implementation"} \subseteq call.tasks
      /\ (wsched.pc = "returned" /\ wsched.architecture_spec)
            => \A n \in WavesToCheck :
                  \E i \in 1..Len(wsched.guard_calls) : wsched.guard_calls[i].wave = n

\* every line the subprocess has printed has been read
OutputDrained ==
    Len(attempt.output_lines) = Emitted(attempt.script, attempt.now)

\* C36: when the Reaper's verdict is KILL, the subprocess is first sent a
\* signal it can clean up on, the forceful kill comes only as an escalation,
\* and its remaining output is drained, all before the Killed outcome
\* reaches the scheduler's handler.
C36_KillIsGracefulAndDrained ==
    attempt.pc = "killed"
    => /\ attempt.signals # <<>>
       /\ attempt.signals[1] = "SIGTERM"
       /\ OutputDrained

\* the number of heartbeat lines among the last 50 lines read
HeartbeatsInTail ==
    LET out == attempt.output_lines
        n == IF Len(out) < 50 THEN Len(out) ELSE 50
    IN  Cardinality({i \in (Len(out) - n + 1)..Len(out) :
                        out[i] = "[WAVERUNNER_HEARTBEAT]"})

\* C37: no attempt is killed for an infinite loop because of its heartbeat
\* lines: when the repeated-line rule kills, fewer than 30 of the last 50
\* lines are heartbeats.
C37_HeartbeatsAreNoLoop ==
    (attempt.pc = "killed" /\ attempt.reason = "loop") => HeartbeatsInTail < 30

\* C38: an attempt whose timeout expired does not complete its task.
C38_TimeoutNeverCompletes ==
    (attempt.pc = "handled" /\ attempt.reason = "timeout")
    => attempt.task_status # "completed"

\* the worker of task t is between the reset to BACKLOG and the end of its
\* handler: in the deliberation or about to write its result
Reestimating(t) ==
    \E s \in Slots : Fut(s).task = t /\ Fut(s).pc \in {"reest", "resize"}

\* C39: no attempt of a task starts while the task's worker is between the
\* reset to BACKLOG and the end of the re-estimation, and the complexity of
\* a task is written only while the task waits in BACKLOG and is saved with
\* the write: a retry never runs with a complexity that is about to change.
C39_RetryAfterReestimation ==
    [][\A t \in TaskIds :
          /\ (status[t] # "in_progress" /\ status'[t] = "in_progress")
                => ~Reestimating(t)
          /\ complexity'[t] # complexity[t]
                => /\ Reestimating(t)
                   /\ status[t] = "backlog"
                   /\ status'[t] = "backlog"
                   /\ ~unsaved']_vars

\* a task killed at least twice runs its retry with the size the
\* re-estimation gave it
C39_Witness ==
    \E s \in Slots :
        /\ Fut(s).pc = "exec"
        /\ reaper_kill_count[Fut(s).task] >= 2
        /\ complexity[Fut(s).task] = "medium"
        /\ status[Fut(s).task] = "in_progress"

\* C40: run_sprint called on a loaded plan in which some task was left
\* IN_PROGRESS by an interrupted run returns.
C40_ResumeReturns ==
    (pc = "begin" /\ \E t \in TaskIds : status[t] = "in_progress")
        ~> (pc = "returned")

====
